---- MODULE Spec2Model ----
(***************************************************************************)
(* A model of the Monkey bytecode pipeline: package code (opcodes, Make,   *)
(* ReadOperands, Instructions.String), package compiler (Compile) and      *)
(* package vm (Run and its helpers).                                       *)
(*                                                                         *)
(* Conventions.  Go slices are 0-based, TLA+ sequences 1-based: byte       *)
(* offset o of a Go slice is element o + 1 of the sequence that models it. *)
(* An int64 is modelled by its two's-complement bit pattern, eight bytes,  *)
(* least significant first, so that wrap-around and truncating division    *)
(* are computed as the hardware computes them.                             *)
(***************************************************************************)
EXTENDS Integers, Sequences, FiniteSets, TLC

VARIABLES
    phase,          \* position of the driver: which call comes next
    program,        \* the *ast.Program handed to Compile
    comp,           \* Compiler{instructions, constants}
    compErr,        \* the error returned by Compile ("" is nil)
    constants,      \* VM.constants
    instructions,   \* VM.instructions
    stack,          \* VM.stack: the slots written so far (others are nil)
    sp,             \* VM.sp
    globals,        \* VM.globals: the slots written so far (others are nil)
    ip,             \* the loop variable ip of Run
    runErr,         \* the error returned by Run, or the panic message
    allocs,         \* the number of objects allocated so far (the heap)
    insList,        \* codec input: a list of (opcode, operands) to encode
    made,           \* codec: the concatenated Make outputs
    readOut,        \* codec: result of ReadOperands on the first instruction
    strOut,         \* codec: result of Instructions.String()
    symbolTable,    \* SymbolTable{store, numDefinitions}
    symbol,         \* what the last call of Define or Resolve returned
    store,          \* the slice s handed to NewWithGlobalStore
    sharing,        \* VM.globals is the slice s (same backing array)
    turn,           \* the number of VMs constructed so far
    earlier,        \* the number of literals compiled before program, whose
                    \* code and constants comp leaves out
    defined         \* the symbols the calls of Define returned, in order

vars == <<phase, program, comp, compErr, constants, instructions, stack, sp,
          globals, ip, runErr, allocs, insList, made, readOut, strOut,
          symbolTable, symbol, store, sharing, turn, earlier, defined>>

compilerVars == <<program, comp, compErr, earlier>>
vmVars == <<constants, instructions, stack, sp, globals, ip, runErr, allocs>>
codecVars == <<insList, made, readOut, strOut>>
symVars == <<symbolTable, symbol, defined>>
storeVars == <<store, sharing, turn>>

-----------------------------------------------------------------------------
(* int64: two's-complement arithmetic on eight bytes, least significant    *)
(* first.                                                                  *)

I64Zero == <<0, 0, 0, 0, 0, 0, 0, 0>>
I64One == <<1, 0, 0, 0, 0, 0, 0, 0>>
MinInt64 == <<0, 0, 0, 0, 0, 0, 0, 128>>
MaxInt64 == <<255, 255, 255, 255, 255, 255, 255, 127>>

RECURSIVE AddFrom(_, _, _, _)
AddFrom(a, b, i, carry) ==
    IF i > 8 THEN <<>>
    ELSE LET t == a[i] + b[i] + carry
         IN  <<t % 256>> \o AddFrom(a, b, i + 1, t \div 256)

\* a + b on int64 (wraps modulo 2^64)
I64Add(a, b) == AddFrom(a, b, 1, 0)

I64Not(a) == [i \in 1..8 |-> 255 - a[i]]

\* -a on int64 (wraps: -MinInt64 = MinInt64)
I64Neg(a) == I64Add(I64Not(a), I64One)

RECURSIVE SubFrom(_, _, _, _)
SubFrom(a, b, i, borrow) ==
    IF i > 8 THEN <<>>
    ELSE LET t == a[i] - b[i] - borrow
         IN  <<t % 256>> \o SubFrom(a, b, i + 1, IF t < 0 THEN 1 ELSE 0)

\* a - b on int64 (wraps modulo 2^64)
I64Sub(a, b) == SubFrom(a, b, 1, 0)

RECURSIVE ColSum(_, _, _, _)
ColSum(a, b, k, i) ==
    IF i > k THEN 0 ELSE a[i] * b[k + 1 - i] + ColSum(a, b, k, i + 1)

RECURSIVE MulFrom(_, _, _, _)
MulFrom(a, b, k, carry) ==
    IF k > 8 THEN <<>>
    ELSE LET t == ColSum(a, b, k, 1) + carry
         IN  <<t % 256>> \o MulFrom(a, b, k + 1, t \div 256)

\* a * b on int64 (the low 64 bits of the product)
I64Mul(a, b) == MulFrom(a, b, 1, 0)

I64IsNeg(a) == a[8] >= 128

\* the magnitude of a as an unsigned 64-bit pattern
I64Abs(a) == IF I64IsNeg(a) THEN I64Neg(a) ELSE a

RECURSIVE U64GeqFrom(_, _, _)
U64GeqFrom(a, b, i) ==
    IF i = 0 THEN TRUE
    ELSE IF a[i] # b[i] THEN a[i] > b[i]
    ELSE U64GeqFrom(a, b, i - 1)

\* a >= b, both read as unsigned
U64Geq(a, b) == U64GeqFrom(a, b, 8)

\* bit i (0 = least significant) of the pattern a
U64Bit(a, i) == (a[(i \div 8) + 1] \div (2 ^ (i % 8))) % 2

RECURSIVE ShlFrom(_, _, _)
ShlFrom(a, i, carry) ==
    IF i > 8 THEN <<>>
    ELSE LET t == 2 * a[i] + carry
         IN  <<t % 256>> \o ShlFrom(a, i + 1, t \div 256)

\* (a << 1) | bit
U64Shl1(a, bit) == ShlFrom(a, 1, bit)

\* shift-and-subtract long division of unsigned n by unsigned d # 0:
\* bits i..0 of n remain, q and r are the quotient and remainder so far
\* (the test of Len(q) has the quotient computed step by step)
RECURSIVE U64DivFrom(_, _, _, _, _)
U64DivFrom(n, d, i, q, r) ==
    IF i < 0 \/ Len(q) # 8 THEN q
    ELSE LET r1 == U64Shl1(r, U64Bit(n, i))
         IN  IF U64Geq(r1, d)
             THEN U64DivFrom(n, d, i - 1, U64Shl1(q, 1), I64Sub(r1, d))
             ELSE U64DivFrom(n, d, i - 1, U64Shl1(q, 0), r1)

\* the number of bytes of n up to its most significant non-zero byte
RECURSIVE U64Bytes(_, _)
U64Bytes(n, k) == IF k = 0 \/ n[k] # 0 THEN k ELSE U64Bytes(n, k - 1)

\* n / d on unsigned patterns, d # 0 (the leading zero bytes of n yield
\* zero quotient bits and are skipped)
U64Div(n, d) == U64DivFrom(n, d, 8 * U64Bytes(n, 8) - 1, I64Zero, I64Zero)

\* a / b on int64 for b # 0: the quotient truncated toward zero
\* (MinInt64 / -1 = MinInt64)
I64Quo(a, b) ==
    LET q == U64Div(I64Abs(a), I64Abs(b))
    IN  IF I64IsNeg(a) # I64IsNeg(b) THEN I64Neg(q) ELSE q

\* a > b on int64 (signed)
I64Greater(a, b) ==
    IF I64IsNeg(a) # I64IsNeg(b) THEN I64IsNeg(b)
    ELSE a # b /\ U64Geq(a, b)

RECURSIVE NatBytes(_, _)
NatBytes(n, k) == IF k = 0 THEN <<>> ELSE <<n % 256>> \o NatBytes(n \div 256, k - 1)

\* the int64 with the value of the (small) integer n
I64(n) == IF n >= 0 THEN NatBytes(n, 8) ELSE I64Neg(NatBytes(-n, 8))

-----------------------------------------------------------------------------
(* package code                                                            *)

OpConstant == 0
OpAdd == 1
OpPop == 2
OpSub == 3
OpMul == 4
OpDiv == 5
OpTrue == 6
OpFalse == 7
OpEqual == 8
OpNotEqual == 9
OpGreaterThan == 10
OpMinus == 11
OpBang == 12
OpJumpNotTruthy == 13
OpJump == 14
OpNull == 15
OpGetGlobal == 16
OpSetGlobal == 17
OpArray == 18
OpHash == 19
OpIndex == 20

Def(name, widths) == [Name |-> name, OperandWidths |-> widths]

\* the map definitions; the entry of opcode op is element op + 1
definitionTable ==
    << Def("OpConstant", <<2>>), Def("OpAdd", <<>>), Def("OpPop", <<>>),
       Def("OpSub", <<>>), Def("OpMul", <<>>), Def("OpDiv", <<>>),
       Def("OpTrue", <<>>), Def("OpFalse", <<>>), Def("OpEqual", <<>>),
       Def("OpNotEqual", <<>>), Def("OpGreaterThan", <<>>),
       Def("OpMinus", <<>>), Def("OpBang", <<>>),
       Def("OpJumpNotTruthy", <<2>>), Def("OpJump", <<2>>),
       Def("OpNull", <<>>), Def("OpGetGlobal", <<2>>),
       Def("OpSetGlobal", <<2>>), Def("OpArray", <<2>>), Def("OpHash", <<2>>),
       Def("OpIndex", <<>>) >>

definitions == [op \in OpConstant..OpIndex |-> definitionTable[op + 1]]

RECURSIVE SumSeq(_)
SumSeq(s) == IF s = <<>> THEN 0 ELSE Head(s) + SumSeq(Tail(s))

\* the Go slice s[from:] for a 0-based offset from
SliceFrom(s, from) == SubSeq(s, from + 1, Len(s))

\* a conversion to uint16 that stops at the largest uint16
Uint16Saturating(o) == IF o > 65535 THEN 65535 ELSE o

\* uint16(o): the low 16 bits of the int o
Uint16(o) == o % 65536

\* PutUint16 writing the low byte first (little-endian)
PutUint16LE(b, offset, v) ==
    [b EXCEPT ![offset + 1] = v % 256, ![offset + 2] = v \div 256]

\* binary.BigEndian.PutUint16(b[offset:], v): byte(v >> 8), then byte(v)
PutUint16(b, offset, v) ==
    [b EXCEPT ![offset + 1] = v \div 256, ![offset + 2] = v % 256]

DecimalDigits == <<"0", "1", "2", "3", "4", "5", "6", "7", "8", "9">>

\* the verb %d on a non-negative int: its decimal digits
RECURSIVE Itoa(_)
Itoa(n) ==
    IF n < 10 THEN DecimalDigits[n + 1]
    ELSE Itoa(n \div 10) \o DecimalDigits[(n % 10) + 1]

\* the number of decimal digits of a non-negative int
RECURSIVE NumDigits(_)
NumDigits(n) == IF n < 10 THEN 1 ELSE 1 + NumDigits(n \div 10)

RECURSIVE Zeros(_)
Zeros(k) == IF k <= 0 THEN "" ELSE "0" \o Zeros(k - 1)

\* the verb %04d on a non-negative int: %d, left-padded with zeros to a
\* width of at least four
Fmt04d(n) == Zeros(4 - NumDigits(n)) \o Itoa(n)

\* Lookup: the definition of the opcode byte, or the error
Lookup(op) ==
    IF op \in DOMAIN definitions
    THEN [def |-> definitions[op], err |-> ""]
    ELSE [def |-> Def("", <<>>), err |-> "opcode " \o Itoa(op) \o " undefined"]

\* Make indexes def.OperandWidths out of range when it is given more
\* operands than the opcode has
MakePanics(op, operands) ==
    op \in DOMAIN definitions /\ Len(operands) > Len(definitions[op].OperandWidths)

\* the loop of Make over its operands, from operand i (1-based) on
RECURSIVE MakeLoop(_, _, _, _, _)
MakeLoop(instruction, widths, operands, i, offset) ==
    IF i > Len(operands) THEN instruction
    ELSE LET width == widths[i]
             next == IF width = 2
                     THEN PutUint16(instruction, offset, Uint16(operands[i]))
                     ELSE instruction
         IN  MakeLoop(next, widths, operands, i + 1, offset + width)

\* Make(op, operands...), for inputs on which it does not panic
Make(op, operands) ==
    IF op \notin DOMAIN definitions THEN <<>>
    ELSE LET def == definitions[op]
             instructionLen == 1 + SumSeq(def.OperandWidths)
             instruction == <<op>> \o [i \in 1..(instructionLen - 1) |-> 0]
         IN  MakeLoop(instruction, def.OperandWidths, operands, 1, 1)

\* ReadUint16 reading the low byte first (little-endian)
ReadUint16LE(ins) == ins[1] + ins[2] * 256

\* ReadUint16(ins): big-endian, panics on fewer than two bytes
ReadUint16(ins) == ins[1] * 256 + ins[2]

\* the loop of ReadOperands from width i (1-based) on
RECURSIVE ReadLoop(_, _, _, _)
ReadLoop(def, ins, i, acc) ==
    IF i > Len(def.OperandWidths) THEN acc
    ELSE LET width == def.OperandWidths[i]
         IN  IF width = 2 /\ Len(ins) < acc.read + 2
             THEN [acc EXCEPT !.panic = TRUE]
             ELSE ReadLoop(def, ins, i + 1,
                    [acc EXCEPT
                       !.operands = Append(@,
                           IF width = 2 THEN ReadUint16(SliceFrom(ins, acc.read))
                           ELSE 0),
                       !.read = @ + width])

\* ReadOperands reporting one byte more than it read
ReadOperandsByteMore(def, ins) ==
    [ReadLoop(def, ins, 1, [operands |-> <<>>, read |-> 0, panic |-> FALSE])
        EXCEPT !.read = @ + 1]

\* ReadOperands(def, ins): the operands and the number of bytes read
ReadOperands(def, ins) ==
    ReadLoop(def, ins, 1, [operands |-> <<>>, read |-> 0, panic |-> FALSE])

\* fmtInstruction printing the name only
fmtInstructionNameOnly(def, operands) ==
    IF Len(operands) # Len(def.OperandWidths)
    THEN "ERROR: operand len " \o Itoa(Len(operands))
             \o " does not match defined " \o Itoa(Len(def.OperandWidths)) \o "\n"
    ELSE def.Name

\* fmtInstruction(def, operands)
fmtInstruction(def, operands) ==
    LET operandCount == Len(def.OperandWidths)
    IN  IF Len(operands) # operandCount
        THEN "ERROR: operand len " \o Itoa(Len(operands))
                 \o " does not match defined " \o Itoa(operandCount) \o "\n"
        ELSE IF operandCount = 0 THEN def.Name
        ELSE IF operandCount = 1 THEN def.Name \o " " \o Itoa(operands[1])
        ELSE "ERROR: unhandled operandCount for " \o def.Name \o "\n"

\* the loop of Instructions.String from byte offset i on; out is the buffer
RECURSIVE StringLoop(_, _, _)
StringLoop(ins, i, out) ==
    IF i >= Len(ins) THEN [out |-> out, panic |-> FALSE]
    ELSE LET lk == Lookup(ins[i + 1])
         IN  IF lk.err # ""
             THEN StringLoop(ins, i + 1, out \o "ERROR: " \o lk.err \o "\n")
             ELSE LET rd == ReadOperands(lk.def, SliceFrom(ins, i + 1))
                  IN  IF rd.panic THEN [out |-> out, panic |-> TRUE]
                      ELSE StringLoop(ins, i + 1 + rd.read,
                              out \o Fmt04d(i) \o " "
                                  \o fmtInstruction(lk.def, rd.operands) \o "\n")

\* Instructions.String(): the disassembly, or a panic on a truncated operand
InstructionsString(ins) == StringLoop(ins, 0, "")

-----------------------------------------------------------------------------
(* package object: a value is a record with its type tag, its payload and  *)
(* ref, the identity of the allocation (what a Go pointer compares).  A Go *)
(* string is the sequence of its bytes; the field Value of a Boolean is    *)
(* boolValue here, so that no field holds values of two kinds.             *)

INTEGER_OBJ == "INTEGER"
BOOLEAN_OBJ == "BOOLEAN"
NULL_OBJ == "NULL"
STRING_OBJ == "STRING"
ARRAY_OBJ == "ARRAY"
HASH_OBJ == "HASH"

\* var True, False, Null of package vm: the first three allocations
True == [type |-> BOOLEAN_OBJ, boolValue |-> TRUE, ref |-> 1]
False == [type |-> BOOLEAN_OBJ, boolValue |-> FALSE, ref |-> 2]
Null == [type |-> NULL_OBJ, ref |-> 3]

\* the objects allocated when the packages are initialised
InitialAllocs == Null.ref

\* the nil interface value of a slot that was never written
Nil == [type |-> "nil", ref |-> 0]

IsNil(o) == o.type = "nil"

\* &object.Integer{Value: v}, allocated as object number ref
Integer(v, ref) == [type |-> INTEGER_OBJ, value |-> v, ref |-> ref]

\* &object.Boolean{Value: b}
Boolean(b, ref) == [type |-> BOOLEAN_OBJ, boolValue |-> b, ref |-> ref]

\* &object.String{Value: v}; v is the sequence of the bytes of the string
String(v, ref) == [type |-> STRING_OBJ, value |-> v, ref |-> ref]

\* &object.Array{Elements: elements}
Array(elements, ref) == [type |-> ARRAY_OBJ, Elements |-> elements, ref |-> ref]

\* &object.Hash{Pairs: pairs}; pairs is a function from HashKey to HashPair
Hash(pairs, ref) == [type |-> HASH_OBJ, Pairs |-> pairs, ref |-> ref]

HashPair(key, value) == [Key |-> key, Value |-> value]

\* the exclusive or of two bytes, bit by bit
RECURSIVE XorByte(_, _, _)
XorByte(x, y, bits) ==
    IF bits = 0 THEN 0
    ELSE ((x + y) % 2) + 2 * XorByte(x \div 2, y \div 2, bits - 1)

\* hash/fnv: the 64-bit offset basis 0xcbf29ce484222325 and prime 0x100000001b3
FnvOffset64 == <<37, 35, 34, 132, 228, 156, 242, 203>>
FnvPrime64 == <<179, 1, 0, 0, 0, 1, 0, 0>>

\* fnv.New64a over the bytes of s from byte i (1-based) on
RECURSIVE Fnv64aFrom(_, _, _)
Fnv64aFrom(s, i, h) ==
    IF i > Len(s) \/ Len(h) # 8 THEN h
    ELSE Fnv64aFrom(s, i + 1,
            I64Mul([h EXCEPT ![1] = XorByte(@, s[i], 8)], FnvPrime64))

Fnv64a(s) == Fnv64aFrom(s, 1, FnvOffset64)

\* the types that implement object.Hashable
IsHashable(o) == o.type \in {INTEGER_OBJ, BOOLEAN_OBJ, STRING_OBJ}

\* HashKey() of a Hashable; Value is the uint64 as its eight bytes
HashKeyOf(o) ==
    CASE o.type = INTEGER_OBJ -> [Type |-> INTEGER_OBJ, Value |-> o.value]
      [] o.type = BOOLEAN_OBJ ->
           [Type |-> BOOLEAN_OBJ, Value |-> IF o.boolValue THEN I64One ELSE I64Zero]
      [] o.type = STRING_OBJ -> [Type |-> STRING_OBJ, Value |-> Fnv64a(o.value)]

-----------------------------------------------------------------------------
(* package ast: a node is a record whose field node names its Go type.     *)
(* An identifier is the sequence of the bytes of its name; the field Value *)
(* of a Boolean node is BoolValue here.                                    *)

IntegerLiteral(v) == [node |-> "IntegerLiteral", Value |-> v]
BooleanLit(b) == [node |-> "Boolean", BoolValue |-> b]
Identifier(name) == [node |-> "Identifier", Value |-> name]
PrefixExpression(op, right) ==
    [node |-> "PrefixExpression", Operator |-> op, Right |-> right]
InfixExpression(left, op, right) ==
    [node |-> "InfixExpression", Left |-> left, Operator |-> op, Right |-> right]
ExpressionStatement(e) == [node |-> "ExpressionStatement", Expression |-> e]
LetStatement(name, value) ==
    [node |-> "LetStatement", Name |-> Identifier(name), Value |-> value]
Program(stmts) == [node |-> "Program", Statements |-> stmts]
BlockStatement(stmts) == [node |-> "BlockStatement", Statements |-> stmts]
\* the nil *BlockStatement of an if without else
NoBlock == [node |-> "nil"]
IfExpression(condition, consequence, alternative) ==
    [node |-> "IfExpression", Condition |-> condition,
     Consequence |-> consequence, Alternative |-> alternative]

-----------------------------------------------------------------------------
(* package compiler                                                        *)

\* compiler.New()
NewCompiler == [instructions |-> <<>>, constants |-> <<>>, allocs |-> InitialAllocs]

\* Compiler.addInstruction: append, return the position of the instruction
addInstruction(c, ins) ==
    [c |-> [c EXCEPT !.instructions = @ \o ins], pos |-> Len(c.instructions)]

\* Compiler.emit
emit(c, op, operands) == addInstruction(c, Make(op, operands))

\* Compiler.addConstant: append, return the index of the constant
addConstant(c, obj) ==
    [c |-> [c EXCEPT !.constants = Append(@, obj)], index |-> Len(c.constants)]

\* the opcode emitted for an infix operator, -1 for the default case
InfixOpcode(operator) ==
    CASE operator = "+" -> OpAdd
      [] operator = "-" -> OpSub
      [] operator = "*" -> OpMul
      [] operator = "/" -> OpDiv
      [] OTHER -> -1

RECURSIVE Compile(_, _)
RECURSIVE CompileStatements(_, _, _)
RECURSIVE CompileStatementsKeepGoing(_, _, _)

\* the loop of case *ast.Program that compiles the statements after an error
\* too and returns the first error at the end
CompileStatementsKeepGoing(c, stmts, i) ==
    IF i > Len(stmts) THEN [c |-> c, err |-> ""]
    ELSE LET r == Compile(c, stmts[i])
             rest == CompileStatementsKeepGoing(r.c, stmts, i + 1)
         IN  IF r.err # "" THEN [c |-> rest.c, err |-> r.err] ELSE rest

\* the loop of case *ast.Program, from statement i (1-based) on
CompileStatements(c, stmts, i) ==
    IF i > Len(stmts) THEN [c |-> c, err |-> ""]
    ELSE LET r == Compile(c, stmts[i])
         IN  IF r.err # "" THEN r ELSE CompileStatements(r.c, stmts, i + 1)

\* Compiler.Compile(node): the compiler afterwards and the error ("" is nil)
Compile(c, node) ==
    CASE node.node = "Program" -> CompileStatements(c, node.Statements, 1)
      [] node.node = "ExpressionStatement" ->
           LET r == Compile(c, node.Expression)
           IN  IF r.err # "" THEN r
               ELSE [c |-> emit(r.c, OpPop, <<>>).c, err |-> ""]
      [] node.node = "InfixExpression" ->
           LET l == Compile(c, node.Left)
           IN  IF l.err # "" THEN l
               ELSE LET r == Compile(l.c, node.Right)
                    IN  IF r.err # "" THEN r
                        ELSE IF InfixOpcode(node.Operator) = -1
                        THEN [c |-> r.c, err |-> "unknown operator " \o node.Operator]
                        ELSE [c |-> emit(r.c, InfixOpcode(node.Operator), <<>>).c,
                              err |-> ""]
      [] node.node = "IntegerLiteral" ->
           LET integer == Integer(node.Value, c.allocs + 1)
               c1 == [c EXCEPT !.allocs = @ + 1]
               k == addConstant(c1, integer)
           IN  [c |-> emit(k.c, OpConstant, <<k.index>>).c, err |-> ""]
      [] OTHER -> [c |-> c, err |-> ""]

\* Compiler.Bytecode()
Bytecode(c) == [Instructions |-> c.instructions, Constants |-> c.constants]

\* m[k] = v on a Go map m
MapPut(pairs, k, pair) ==
    [j \in DOMAIN pairs \cup {k} |-> IF j = k THEN pair ELSE pairs[j]]

GlobalScope == "GLOBAL"

\* Symbol{Name, Scope, Index}
Symbol(name, scope, index) == [Name |-> name, Scope |-> scope, Index |-> index]

\* the zero Symbol, with ok: what Resolve returns for a name not in the store
NoSymbol == [sym |-> Symbol(<<>>, "", 0), ok |-> FALSE]

\* NewSymbolTable(): an empty store; store is a function from names to Symbols
NewSymbolTable == [store |-> <<>>, numDefinitions |-> 0]

\* Define that keeps the entry of a name the store already holds
DefineKeepingFirst(st, name) ==
    LET sym == Symbol(name, GlobalScope, st.numDefinitions)
    IN  [st |-> [store |-> IF name \in DOMAIN st.store THEN st.store
                           ELSE MapPut(st.store, name, sym),
                 numDefinitions |-> st.numDefinitions + 1],
         sym |-> sym]

\* SymbolTable.Define(name): the table afterwards and the Symbol returned
Define(st, name) ==
    LET sym == Symbol(name, GlobalScope, st.numDefinitions)
    IN  [st |-> [store |-> MapPut(st.store, name, sym),
                 numDefinitions |-> st.numDefinitions + 1],
         sym |-> sym]

\* SymbolTable.Resolve(name)
Resolve(st, name) ==
    IF name \in DOMAIN st.store THEN [sym |-> st.store[name], ok |-> TRUE]
    ELSE NoSymbol

-----------------------------------------------------------------------------
(* package vm.  The machine is the record m of the fields of VM, the loop  *)
(* variable ip, the heap counter and the way Run ended: status is          *)
(* "running", "error" (Run returned err) or "panic" (the Go runtime        *)
(* stopped the program), with the message in err.                          *)

StackSize == 2048
GlobalSize == 65536

Fail(m, msg) == [m EXCEPT !.status = "error", !.err = msg]
Panic(m, msg) == [m EXCEPT !.status = "panic", !.err = msg]

IndexOutOfRange == "runtime error: index out of range"
NilDereference == "runtime error: invalid memory address or nil pointer dereference"
DivideByZero == "runtime error: integer divide by zero"

\* vm.stack[i] for 0 <= i < StackSize: nil unless the slot was written
StackAt(stk, i) == IF i < Len(stk) THEN stk[i + 1] ELSE Nil

\* vm.stack[i] = o, for i at most the number of slots written so far
StackWrite(stk, i, o) ==
    IF i < Len(stk) THEN [stk EXCEPT ![i + 1] = o] ELSE Append(stk, o)

\* vm.globals[i]: nil unless the slot was written
GlobalAt(g, i) == IF i \in DOMAIN g THEN g[i] ELSE Nil

\* a write of vm.globals[i] that clears the other slots
GlobalWriteOnly(g, i, o) == [j \in {i} |-> o]

\* vm.globals[i] = o
GlobalWrite(g, i, o) == [j \in DOMAIN g \cup {i} |-> IF j = i THEN o ELSE g[j]]

\* vm.New(bytecode)
NewVM(bytecode, heap) ==
    [constants |-> bytecode.Constants, instructions |-> bytecode.Instructions,
     stack |-> <<>>, sp |-> 0, globals |-> <<>>, ip |-> 0, allocs |-> heap,
     status |-> "running", err |-> ""]

\* NewWithGlobalStore that leaves the globals New made in place
NewWithGlobalStoreFresh(bytecode, s, heap) == NewVM(bytecode, heap)

\* vm.NewWithGlobalStore(bytecode, s): vm.globals is the slice s itself
NewWithGlobalStore(bytecode, s, heap) ==
    [NewVM(bytecode, heap) EXCEPT !.globals = s]

\* push with the test sp > StackSize
pushOffByOne(m, o) ==
    IF m.sp > StackSize THEN Fail(m, "stack overflow")
    ELSE [m EXCEPT !.stack = StackWrite(@, m.sp, o), !.sp = @ + 1]

\* VM.push
push(m, o) ==
    IF m.sp >= StackSize THEN Fail(m, "stack overflow")
    ELSE [m EXCEPT !.stack = StackWrite(@, m.sp, o), !.sp = @ + 1]

\* VM.pop: the machine afterwards and the value popped
pop(m) ==
    IF m.sp - 1 < 0 \/ m.sp - 1 >= StackSize
    THEN [m |-> Panic(m, IndexOutOfRange), o |-> Nil]
    ELSE [m |-> [m EXCEPT !.sp = @ - 1], o |-> StackAt(m.stack, m.sp - 1)]

\* LastPoppedStackElem read at stack[sp - 1]
LastPoppedBelow(m) ==
    IF m.sp - 1 < 0 THEN [panic |-> TRUE, o |-> Nil]
    ELSE [panic |-> FALSE, o |-> StackAt(m.stack, m.sp - 1)]

\* VM.LastPoppedStackElem
LastPoppedStackElem(m) ==
    IF m.sp >= StackSize THEN [panic |-> TRUE, o |-> Nil]
    ELSE [panic |-> FALSE, o |-> StackAt(m.stack, m.sp)]

\* nativeBoolToBooleanObject returning a Boolean of its own
nativeBoolToBooleanObjectFresh(input) == Boolean(input, InitialAllocs + 100)

\* nativeBoolToBooleanObject
nativeBoolToBooleanObject(input) == IF input THEN True ELSE False

\* isTruthy
isTruthy(obj) ==
    CASE obj.type = BOOLEAN_OBJ -> obj.boolValue
      [] obj.type = NULL_OBJ -> FALSE
      [] OTHER -> TRUE

\* equality of the type and the content of two objects, whichever allocation
SameContent(a, b) == [a EXCEPT !.ref = 0] = [b EXCEPT !.ref = 0]

\* right == left on two object.Object values: the same allocation
SameObject(a, b) == a.ref = b.ref

\* executeIntegerBinaryOperation with the operands exchanged
executeIntegerBinaryOperationSwapped(m, op, left, right) ==
    LET leftVal == left.value
        rightVal == right.value
    IN  IF op = OpDiv /\ leftVal = I64Zero THEN Panic(m, DivideByZero)
        ELSE IF op \notin {OpAdd, OpSub, OpMul, OpDiv}
        THEN Fail(m, "unknown integer operator: " \o Itoa(op))
        ELSE LET result == CASE op = OpAdd -> I64Add(rightVal, leftVal)
                             [] op = OpSub -> I64Sub(rightVal, leftVal)
                             [] op = OpMul -> I64Mul(rightVal, leftVal)
                             [] op = OpDiv -> I64Quo(rightVal, leftVal)
             IN  push([m EXCEPT !.allocs = @ + 1], Integer(result, m.allocs + 1))

\* VM.executeIntegerBinaryOperation
executeIntegerBinaryOperation(m, op, left, right) ==
    LET leftVal == left.value
        rightVal == right.value
    IN  IF op = OpDiv /\ rightVal = I64Zero THEN Panic(m, DivideByZero)
        ELSE IF op \notin {OpAdd, OpSub, OpMul, OpDiv}
        THEN Fail(m, "unknown integer operator: " \o Itoa(op))
        ELSE LET result == CASE op = OpAdd -> I64Add(leftVal, rightVal)
                             [] op = OpSub -> I64Sub(leftVal, rightVal)
                             [] op = OpMul -> I64Mul(leftVal, rightVal)
                             [] op = OpDiv -> I64Quo(leftVal, rightVal)
             IN  push([m EXCEPT !.allocs = @ + 1], Integer(result, m.allocs + 1))

\* executeStringBinaryOperation that joins right then left
executeStringBinaryOperationSwapped(m, op, left, right) ==
    IF op # OpAdd THEN Fail(m, "unknown string operator: " \o Itoa(op))
    ELSE push([m EXCEPT !.allocs = @ + 1],
              String(right.value \o left.value, m.allocs + 1))

\* VM.executeStringBinaryOperation
executeStringBinaryOperation(m, op, left, right) ==
    IF op # OpAdd THEN Fail(m, "unknown string operator: " \o Itoa(op))
    ELSE push([m EXCEPT !.allocs = @ + 1],
              String(left.value \o right.value, m.allocs + 1))

\* VM.executeBinaryOperation
executeBinaryOperation(m, op) ==
    LET r == pop(m)
        l == pop(r.m)
        right == r.o
        left == l.o
    IN  IF r.m.status # "running" THEN r.m
        ELSE IF l.m.status # "running" THEN l.m
        ELSE IF IsNil(left) \/ IsNil(right) THEN Panic(l.m, NilDereference)
        ELSE IF left.type = INTEGER_OBJ /\ right.type = INTEGER_OBJ
        THEN executeIntegerBinaryOperation(l.m, op, left, right)
        ELSE IF left.type = STRING_OBJ /\ right.type = STRING_OBJ
        THEN executeStringBinaryOperation(l.m, op, left, right)
        ELSE Fail(l.m, "unsupported types for binary operator: "
                          \o left.type \o " " \o right.type)

\* executeIntegerComparison with OpGreaterThan computed as rightVal > leftVal
executeIntegerComparisonSwapped(m, op, left, right) ==
    LET leftVal == left.value
        rightVal == right.value
    IN  CASE op = OpEqual -> push(m, nativeBoolToBooleanObject(rightVal = leftVal))
          [] op = OpNotEqual -> push(m, nativeBoolToBooleanObject(rightVal # leftVal))
          [] op = OpGreaterThan ->
               push(m, nativeBoolToBooleanObject(I64Greater(rightVal, leftVal)))
          [] OTHER -> Fail(m, "unknown operator: " \o Itoa(op))

\* VM.executeIntegerComparison
executeIntegerComparison(m, op, left, right) ==
    LET leftVal == left.value
        rightVal == right.value
    IN  CASE op = OpEqual -> push(m, nativeBoolToBooleanObject(rightVal = leftVal))
          [] op = OpNotEqual -> push(m, nativeBoolToBooleanObject(rightVal # leftVal))
          [] op = OpGreaterThan ->
               push(m, nativeBoolToBooleanObject(I64Greater(leftVal, rightVal)))
          [] OTHER -> Fail(m, "unknown operator: " \o Itoa(op))

\* executeComparison that rejects operands of different types
executeComparisonSameTypeOnly(m, op) ==
    LET r == pop(m)
        l == pop(r.m)
        right == r.o
        left == l.o
    IN  IF r.m.status # "running" THEN r.m
        ELSE IF l.m.status # "running" THEN l.m
        ELSE IF IsNil(left) \/ IsNil(right) THEN Panic(l.m, NilDereference)
        ELSE IF left.type = INTEGER_OBJ /\ right.type = INTEGER_OBJ
        THEN executeIntegerComparison(l.m, op, left, right)
        ELSE IF left.type # right.type
        THEN Fail(l.m, "type mismatch: " \o left.type \o " " \o right.type)
        ELSE CASE op = OpEqual ->
                    push(l.m, nativeBoolToBooleanObject(SameObject(right, left)))
               [] op = OpNotEqual ->
                    push(l.m, nativeBoolToBooleanObject(~SameObject(right, left)))
               [] OTHER ->
                    Fail(l.m, "unknown operator: " \o Itoa(op) \o " ("
                                 \o left.type \o " " \o right.type \o ")")

\* VM.executeComparison
executeComparison(m, op) ==
    LET r == pop(m)
        l == pop(r.m)
        right == r.o
        left == l.o
    IN  IF r.m.status # "running" THEN r.m
        ELSE IF l.m.status # "running" THEN l.m
        ELSE IF IsNil(left) THEN Panic(l.m, NilDereference)
        ELSE IF left.type = INTEGER_OBJ /\ IsNil(right) THEN Panic(l.m, NilDereference)
        ELSE IF left.type = INTEGER_OBJ /\ right.type = INTEGER_OBJ
        THEN executeIntegerComparison(l.m, op, left, right)
        ELSE CASE op = OpEqual ->
                    push(l.m, nativeBoolToBooleanObject(SameObject(right, left)))
               [] op = OpNotEqual ->
                    push(l.m, nativeBoolToBooleanObject(~SameObject(right, left)))
               [] OTHER ->
                    IF IsNil(right) THEN Panic(l.m, NilDereference)
                    ELSE Fail(l.m, "unknown operator: " \o Itoa(op) \o " ("
                                      \o left.type \o " " \o right.type \o ")")

\* VM.executeBangOperator
executeBangOperator(m) ==
    LET p == pop(m)
        operand == p.o
    IN  IF p.m.status # "running" THEN p.m
        ELSE IF SameObject(operand, False) THEN push(p.m, True)
        ELSE IF SameObject(operand, True) THEN push(p.m, False)
        ELSE IF SameObject(operand, Null) THEN push(p.m, True)
        ELSE push(p.m, False)

\* executeMinusOperator that does not wrap: minus the least int64 is the
\* greatest
executeMinusOperatorSaturating(m) ==
    LET p == pop(m)
        operand == p.o
    IN  IF p.m.status # "running" THEN p.m
        ELSE IF IsNil(operand) THEN Panic(p.m, NilDereference)
        ELSE IF operand.type # INTEGER_OBJ
        THEN Fail(p.m, "unsupported type for negation: " \o operand.type)
        ELSE push([p.m EXCEPT !.allocs = @ + 1],
                  Integer(IF operand.value = MinInt64 THEN MaxInt64
                          ELSE I64Neg(operand.value), p.m.allocs + 1))

\* VM.executeMinusOperator
executeMinusOperator(m) ==
    LET p == pop(m)
        operand == p.o
    IN  IF p.m.status # "running" THEN p.m
        ELSE IF IsNil(operand) THEN Panic(p.m, NilDereference)
        ELSE IF operand.type # INTEGER_OBJ
        THEN Fail(p.m, "unsupported type for negation: " \o operand.type)
        ELSE push([p.m EXCEPT !.allocs = @ + 1],
                  Integer(I64Neg(operand.value), p.m.allocs + 1))

\* the loop of buildArray filling the slice from its end
RECURSIVE buildArrayLoopReversed(_, _, _, _)
buildArrayLoopReversed(m, i, endIndex, elements) ==
    IF i >= endIndex THEN [panic |-> FALSE, elements |-> elements]
    ELSE IF i < 0 \/ i >= StackSize THEN [panic |-> TRUE, elements |-> elements]
    ELSE buildArrayLoopReversed(m, i + 1, endIndex,
                                <<StackAt(m.stack, i)>> \o elements)

\* the loop of buildArray from stack index i on; elements is the slice so far
RECURSIVE buildArrayLoop(_, _, _, _)
buildArrayLoop(m, i, endIndex, elements) ==
    IF i >= endIndex THEN [panic |-> FALSE, elements |-> elements]
    ELSE IF i < 0 \/ i >= StackSize THEN [panic |-> TRUE, elements |-> elements]
    ELSE buildArrayLoop(m, i + 1, endIndex, Append(elements, StackAt(m.stack, i)))

\* VM.buildArray(startIndex, endIndex): the machine afterwards and the Array
\* (make panics on a negative length)
buildArray(m, startIndex, endIndex) ==
    LET b == buildArrayLoop(m, startIndex, endIndex, <<>>)
    IN  IF endIndex - startIndex < 0 \/ b.panic
        THEN [m |-> Panic(m, IndexOutOfRange), o |-> Nil]
        ELSE [m |-> [m EXCEPT !.allocs = @ + 1],
              o |-> Array(b.elements, m.allocs + 1)]

\* the loop of buildHash from stack index i on
\* the loop of buildHash leaving out a pair whose key is not hashable
RECURSIVE buildHashLoopSkipping(_, _, _, _)
buildHashLoopSkipping(m, i, endIndex, hashedPairs) ==
    IF i >= endIndex THEN [m |-> m, pairs |-> hashedPairs]
    ELSE IF i < 0 \/ i + 1 >= StackSize
    THEN [m |-> Panic(m, IndexOutOfRange), pairs |-> hashedPairs]
    ELSE LET key == StackAt(m.stack, i)
             value == StackAt(m.stack, i + 1)
         IN  IF IsNil(key) THEN [m |-> Panic(m, NilDereference), pairs |-> hashedPairs]
             ELSE IF ~IsHashable(key)
             THEN buildHashLoopSkipping(m, i + 2, endIndex, hashedPairs)
             ELSE buildHashLoopSkipping(m, i + 2, endIndex,
                     MapPut(hashedPairs, HashKeyOf(key), HashPair(key, value)))

RECURSIVE buildHashLoop(_, _, _, _)
buildHashLoop(m, i, endIndex, hashedPairs) ==
    IF i >= endIndex THEN [m |-> m, pairs |-> hashedPairs]
    ELSE IF i < 0 \/ i + 1 >= StackSize
    THEN [m |-> Panic(m, IndexOutOfRange), pairs |-> hashedPairs]
    ELSE LET key == StackAt(m.stack, i)
             value == StackAt(m.stack, i + 1)
         IN  IF IsNil(key) THEN [m |-> Panic(m, NilDereference), pairs |-> hashedPairs]
             ELSE IF ~IsHashable(key)
             THEN [m |-> Fail(m, "unusable as hash key: " \o key.type),
                   pairs |-> hashedPairs]
             ELSE buildHashLoop(m, i + 2, endIndex,
                     MapPut(hashedPairs, HashKeyOf(key), HashPair(key, value)))

\* VM.buildHash(startIndex, endIndex): the machine afterwards and the Hash
buildHash(m, startIndex, endIndex) ==
    LET b == buildHashLoop(m, startIndex, endIndex, <<>>)
    IN  IF b.m.status # "running" THEN [m |-> b.m, o |-> Nil]
        ELSE [m |-> [m EXCEPT !.allocs = @ + 1], o |-> Hash(b.pairs, m.allocs + 1)]

\* the value of a non-negative int64 below 2^24 as an integer
I64ToNat(v) == v[1] + 256 * v[2] + 65536 * v[3]

\* executeArrayIndex with the bounds check i <= 0
executeArrayIndexFromOne(m, array, index) ==
    LET i == index.value
        maxBounds == I64(Len(array.Elements) - 1)
    IN  IF ~I64Greater(i, I64Zero) \/ I64Greater(i, maxBounds) THEN push(m, Null)
        ELSE push(m, array.Elements[I64ToNat(i) + 1])

\* VM.executeArrayIndex
executeArrayIndex(m, array, index) ==
    LET i == index.value
        maxBounds == I64(Len(array.Elements) - 1)
    IN  IF I64IsNeg(i) \/ I64Greater(i, maxBounds) THEN push(m, Null)
        ELSE push(m, array.Elements[I64ToNat(i) + 1])

\* executeHashIndex with a missing key reported as an error
executeHashIndexMissingFails(m, hash, index) ==
    IF IsNil(index) THEN Panic(m, NilDereference)
    ELSE IF ~IsHashable(index)
    THEN Fail(m, "unusable as hash key: " \o index.type)
    ELSE IF HashKeyOf(index) \notin DOMAIN hash.Pairs THEN Fail(m, "key not found")
    ELSE push(m, hash.Pairs[HashKeyOf(index)].Value)

\* VM.executeHashIndex
executeHashIndex(m, hash, index) ==
    IF IsNil(index) THEN Panic(m, NilDereference)
    ELSE IF ~IsHashable(index)
    THEN Fail(m, "unusable as hash key: " \o index.type)
    ELSE IF HashKeyOf(index) \notin DOMAIN hash.Pairs THEN push(m, Null)
    ELSE push(m, hash.Pairs[HashKeyOf(index)].Value)

\* VM.executeIndexExpression
executeIndexExpression(m, left, index) ==
    IF IsNil(left) THEN Panic(m, NilDereference)
    ELSE IF left.type = ARRAY_OBJ /\ IsNil(index) THEN Panic(m, NilDereference)
    ELSE IF left.type = ARRAY_OBJ /\ index.type = INTEGER_OBJ
    THEN executeArrayIndex(m, left, index)
    ELSE IF left.type = HASH_OBJ THEN executeHashIndex(m, left, index)
    ELSE Fail(m, "index operator not supported: " \o left.type)

\* the two operand bytes after the opcode at ip are missing
OperandMissing(m) == Len(m.instructions) < m.ip + 3

\* code.ReadUint16(vm.instructions[ip+1:])
OperandAt(m) == ReadUint16(SliceFrom(m.instructions, m.ip + 1))

\* the body of the loop of Run for the opcode at ip: the switch statement
RunBody(m) ==
    LET op == m.instructions[m.ip + 1]
        m2 == [m EXCEPT !.ip = @ + 2]
    IN  CASE op = OpConstant ->
               IF OperandMissing(m) THEN Panic(m, IndexOutOfRange)
               ELSE IF OperandAt(m) >= Len(m.constants) THEN Panic(m2, IndexOutOfRange)
               ELSE push(m2, m.constants[OperandAt(m) + 1])
          [] op \in {OpAdd, OpSub, OpMul, OpDiv} -> executeBinaryOperation(m, op)
          [] op = OpPop -> pop(m).m
          [] op = OpTrue -> push(m, True)
          [] op = OpFalse -> push(m, False)
          [] op \in {OpEqual, OpNotEqual, OpGreaterThan} -> executeComparison(m, op)
          [] op = OpBang -> executeBangOperator(m)
          [] op = OpMinus -> executeMinusOperator(m)
          [] op = OpJump ->
               IF OperandMissing(m) THEN Panic(m, IndexOutOfRange)
               ELSE [m EXCEPT !.ip = OperandAt(m) - 1]
          [] op = OpJumpNotTruthy ->
               IF OperandMissing(m) THEN Panic(m, IndexOutOfRange)
               ELSE LET p == pop(m2)
                    IN  IF p.m.status # "running" THEN p.m
                        ELSE IF ~isTruthy(p.o) THEN [p.m EXCEPT !.ip = OperandAt(m) - 1]
                        ELSE p.m
          [] op = OpNull -> push(m, Null)
          [] op = OpSetGlobal ->
               IF OperandMissing(m) THEN Panic(m, IndexOutOfRange)
               ELSE LET p == pop(m2)
                    IN  IF p.m.status # "running" THEN p.m
                        ELSE [p.m EXCEPT !.globals = GlobalWrite(@, OperandAt(m), p.o)]
          [] op = OpGetGlobal ->
               IF OperandMissing(m) THEN Panic(m, IndexOutOfRange)
               ELSE push(m2, GlobalAt(m.globals, OperandAt(m)))
          [] op = OpArray ->
               IF OperandMissing(m) THEN Panic(m, IndexOutOfRange)
               ELSE LET numOfElements == OperandAt(m)
                        b == buildArray(m2, m.sp - numOfElements, m.sp)
                    IN  IF b.m.status # "running" THEN b.m
                        ELSE push([b.m EXCEPT !.sp = @ - numOfElements], b.o)
          [] op = OpHash ->
               IF OperandMissing(m) THEN Panic(m, IndexOutOfRange)
               ELSE LET numOfElements == OperandAt(m)
                        b == buildHash(m2, m.sp - numOfElements, m.sp)
                    IN  IF b.m.status # "running" THEN b.m
                        ELSE push([b.m EXCEPT !.sp = @ - numOfElements], b.o)
          [] op = OpIndex ->
               LET i == pop(m)
                   l == pop(i.m)
               IN  IF i.m.status # "running" THEN i.m
                   ELSE IF l.m.status # "running" THEN l.m
                   ELSE executeIndexExpression(l.m, l.o, i.o)
          [] OTHER -> m

\* an iteration without the ip++ after a jump instruction
RunIterationJumpNoIncrement(m) ==
    LET b == RunBody(m)
    IN  IF b.status # "running" THEN b
        ELSE IF m.instructions[m.ip + 1] \in {OpJump, OpJumpNotTruthy} THEN b
        ELSE [b EXCEPT !.ip = @ + 1]

\* an iteration that moves ip on by the one byte of the opcode, whatever the
\* body did to ip
RunIterationOpcodeOnly(m) ==
    LET b == RunBody(m)
    IN  IF b.status = "running" THEN [b EXCEPT !.ip = m.ip + 1] ELSE b

\* one iteration of the loop of Run: the body, then ip++
RunIteration(m) ==
    LET b == RunBody(m)
    IN  IF b.status = "running" THEN [b EXCEPT !.ip = @ + 1] ELSE b

\* VM.Run from the state m on: the loop until it ends, returns or panics
RECURSIVE Run(_)
Run(m) ==
    IF m.status # "running" THEN m
    ELSE IF m.ip >= Len(m.instructions) THEN [m EXCEPT !.status = "done"]
    ELSE Run(RunIteration(m))

-----------------------------------------------------------------------------
(* The driver: parse (an oracle, so the program is an input), compile, run *)
(* (repl.Start, runVmTests).                                               *)

\* the VM as the record the operators of package vm work on
Machine ==
    [constants |-> constants, instructions |-> instructions, stack |-> stack,
     sp |-> sp, globals |-> globals, ip |-> ip, allocs |-> allocs,
     status |-> "running", err |-> ""]

\* the variables of the VM take the fields of the record m
SetMachine(m) ==
    /\ constants' = m.constants
    /\ instructions' = m.instructions
    /\ stack' = m.stack
    /\ sp' = m.sp
    /\ globals' = m.globals
    /\ ip' = m.ip
    /\ allocs' = m.allocs
    /\ runErr' = m.err

NoRead == <<>>
NoString == [out |-> "", panic |-> FALSE]

\* no globals store handed over, no VM constructed
NoStore ==
    /\ store = <<>>
    /\ sharing = FALSE
    /\ turn = 0

\* no symbol table in use either
NoSession ==
    /\ symbolTable = NewSymbolTable
    /\ symbol = NoSymbol
    /\ defined = <<>>
    /\ NoStore

\* the state before anything ran, but for the input
Idle ==
    /\ comp = NewCompiler
    /\ earlier = 0
    /\ compErr = ""
    /\ constants = <<>>
    /\ instructions = <<>>
    /\ stack = <<>>
    /\ sp = 0
    /\ globals = <<>>
    /\ ip = 0
    /\ runErr = ""
    /\ allocs = InitialAllocs
    /\ made = <<>>
    /\ readOut = NoRead
    /\ strOut = NoString
    /\ NoSession

\* comp.Compile(program)
CompileProgram ==
    /\ phase = "parsed"
    /\ LET r == Compile(comp, program)
       IN  /\ comp' = r.c
           /\ compErr' = r.err
           /\ phase' = IF r.err = "" THEN "compiled" ELSE "compileError"
    /\ UNCHANGED <<program, earlier, vmVars, codecVars, symVars, storeVars>>

\* vm.New(comp.Bytecode())
StartVM ==
    /\ phase = "compiled"
    /\ SetMachine(NewVM(Bytecode(comp), comp.allocs))
    /\ phase' = "running"
    /\ sharing' = FALSE
    /\ turn' = turn + 1
    /\ UNCHANGED <<compilerVars, codecVars, symVars, store>>

\* Run: one iteration of its loop
RunStep ==
    /\ phase = "running"
    /\ ip < Len(instructions)
    /\ LET m == RunIteration(Machine)
       IN  /\ SetMachine(m)
           /\ phase' = m.status
           /\ store' = IF sharing THEN m.globals ELSE store
    /\ UNCHANGED <<compilerVars, codecVars, symVars, sharing, turn>>

\* Run: the loop ends, return nil
RunReturn ==
    /\ phase = "running"
    /\ ip >= Len(instructions)
    /\ phase' = "done"
    /\ UNCHANGED <<compilerVars, vmVars, codecVars, symVars, storeVars>>

-----------------------------------------------------------------------------
(* Inputs.                                                                 *)

MaxStmts == 2
MaxOps == 2
MaxInstrs == 2
MaxDefines == 3
MaxTurns == 2
MaxElems == 3
MaxPairs == 2
MaxAccesses == 4

\* the bytecode of the turns of a session: set and get globals 0 and 1
TurnConstants ==
    <<Integer(I64(5), InitialAllocs + 1), Integer(I64(6), InitialAllocs + 2)>>
TurnInstructions ==
    { Make(OpConstant, <<0>>) \o Make(OpSetGlobal, <<0>>),
      Make(OpConstant, <<1>>) \o Make(OpSetGlobal, <<0>>),
      Make(OpTrue, <<>>) \o Make(OpSetGlobal, <<1>>),
      Make(OpGetGlobal, <<0>>) \o Make(OpPop, <<>>),
      Make(OpGetGlobal, <<1>>) \o Make(OpPop, <<>>) }
TurnBytecodes ==
    {[Instructions |-> ins, Constants |-> TurnConstants] : ins \in TurnInstructions}

\* the names given to Define and Resolve: "a", "b", "c"
Names == {<<97>>, <<98>>, <<99>>}

\* a symbol table is new, or has seen the name "a" defined again and again,
\* ManyDefinitions times
ManyDefinitions == GlobalSize - 2
SymbolTables ==
    { NewSymbolTable,
      [store |-> MapPut(<<>>, <<97>>, Symbol(<<97>>, GlobalScope, ManyDefinitions - 1)),
       numDefinitions |-> ManyDefinitions] }

\* the concatenation of the sequences of ss
RECURSIVE Concat(_)
Concat(ss) == IF ss = <<>> THEN <<>> ELSE Head(ss) \o Concat(Tail(ss))

RECURSIVE SeqsUpTo(_, _)
SeqsUpTo(S, n) ==
    IF n = 0 THEN {<<>>}
    ELSE LET shorter == SeqsUpTo(S, n - 1)
         IN  shorter \cup {Append(q, x) : q \in {t \in shorter : Len(t) = n - 1}, x \in S}

\* programs of a few statements over literals, one infix operation deep
StmtLeaves == {IntegerLiteral(I64(6)), IntegerLiteral(I64Zero), BooleanLit(TRUE)}
StmtOperators == {"-", "/", "<"}
StmtExprs ==
    StmtLeaves \cup
    {InfixExpression(l, op, r) : l \in StmtLeaves, op \in StmtOperators, r \in StmtLeaves}
Stmts ==
    {ExpressionStatement(e) : e \in StmtExprs}
        \cup {LetStatement(<<120>>, IntegerLiteral(I64(6)))}
Programs == {Program(q) : q \in SeqsUpTo(Stmts, MaxStmts)}

\* programs of the other forms of the language: if, let and use, comparisons
LangLeaves == {IntegerLiteral(I64(6)), IntegerLiteral(I64Zero)}
LangOperators == {"+", "-", "*", "/", "==", "!=", ">", "<"}
LangInfixes ==
    {InfixExpression(l, op, r) : l \in LangLeaves, op \in LangOperators, r \in LangLeaves}
FalsyConditions ==
    { BooleanLit(FALSE),
      InfixExpression(IntegerLiteral(I64Zero), ">", IntegerLiteral(I64(6))),
      IfExpression(BooleanLit(FALSE),
                   BlockStatement(<<ExpressionStatement(IntegerLiteral(I64(6)))>>),
                   NoBlock) }
Conditions == FalsyConditions \cup {BooleanLit(TRUE), IntegerLiteral(I64(6))}
IfPrograms ==
    {Program(<<ExpressionStatement(
                  IfExpression(c, BlockStatement(<<ExpressionStatement(e)>>), alt))>>) :
        c \in Conditions, e \in LangLeaves,
        alt \in {NoBlock, BlockStatement(<<ExpressionStatement(IntegerLiteral(I64Zero))>>)}}
LetPrograms ==
    {Program(<<LetStatement(<<120>>, e), ExpressionStatement(Identifier(<<120>>))>>) :
        e \in StmtExprs}
InfixPrograms == {Program(<<ExpressionStatement(e)>>) : e \in LangInfixes}
LangPrograms == IfPrograms \cup LetPrograms \cup InfixPrograms

\* arithmetic trees with a given number of operators
ArithLeaves == {IntegerLiteral(I64(-7)), IntegerLiteral(MaxInt64)}
ArithOperators == {"+", "-", "*", "/"}
RECURSIVE TreesOfSize(_)
TreesOfSize(n) ==
    IF n = 0 THEN ArithLeaves
    ELSE UNION {{InfixExpression(l, op, r) :
                    l \in TreesOfSize(k), op \in ArithOperators,
                    r \in TreesOfSize(n - 1 - k)} : k \in 0..(n - 1)}
Trees == UNION {TreesOfSize(n) : n \in 0..MaxOps}

\* hand-written bytecode: the VM runs whatever bytes it is given
RawBytecodes ==
    { [Instructions |-> Make(OpTrue, <<>>) \o Make(OpJump, <<0>>), Constants |-> <<>>],
      [Instructions |-> Make(OpNull, <<>>) \o Make(OpNull, <<>>) \o Make(OpNull, <<>>)
                            \o Make(OpNull, <<>>) \o Make(OpNull, <<>>)
                            \o Make(OpNull, <<>>) \o Make(OpNull, <<>>)
                            \o Make(OpNull, <<>>) \o Make(OpJump, <<0>>),
       Constants |-> <<>>],
      [Instructions |-> Make(OpConstant, <<0>>) \o Make(OpJump, <<0>>),
       Constants |-> <<Integer(I64(5), InitialAllocs + 1)>>],
      [Instructions |-> Make(OpNull, <<>>) \o Make(OpPop, <<>>) \o Make(OpNull, <<>>)
                            \o Make(OpJump, <<0>>),
       Constants |-> <<>>],
      [Instructions |-> Make(OpTrue, <<>>) \o <<77>> \o Make(OpPop, <<>>),
       Constants |-> <<>>],
      [Instructions |-> <<255>> \o Make(OpFalse, <<>>) \o <<21>> \o Make(OpPop, <<>>),
       Constants |-> <<>>] }

\* bytecode that pushes two operands and applies one operator to them.
\* The constants: -1, 0, 1, 2, a second 1, "a", "b", a second "a", MaxInt64
OperandConstants ==
    << Integer(I64(-1), InitialAllocs + 1), Integer(I64Zero, InitialAllocs + 2),
       Integer(I64One, InitialAllocs + 3), Integer(I64(2), InitialAllocs + 4),
       Integer(I64One, InitialAllocs + 5), String(<<97>>, InitialAllocs + 6),
       String(<<98>>, InitialAllocs + 7), String(<<97>>, InitialAllocs + 8),
       Integer(MaxInt64, InitialAllocs + 9) >>

\* the array [1, 2], the array [true] and the empty array
PushArray12 ==
    Make(OpConstant, <<2>>) \o Make(OpConstant, <<3>>) \o Make(OpArray, <<2>>)
PushArrayTrue == Make(OpTrue, <<>>) \o Make(OpArray, <<1>>)
PushArrayEmpty == Make(OpArray, <<0>>)

\* the hash {1: 2, "a": true, true: "b"} and the empty hash
PushHash3 ==
    Make(OpConstant, <<2>>) \o Make(OpConstant, <<3>>)
        \o Make(OpConstant, <<5>>) \o Make(OpTrue, <<>>)
        \o Make(OpTrue, <<>>) \o Make(OpConstant, <<6>>) \o Make(OpHash, <<6>>)
PushHashEmpty == Make(OpHash, <<0>>)

\* the ways to push one operand
PushOperands ==
    {Make(OpConstant, <<k - 1>>) : k \in 1..Len(OperandConstants)}
        \cup {Make(OpTrue, <<>>), Make(OpFalse, <<>>), Make(OpNull, <<>>)}
        \cup {PushArray12, PushArrayTrue, PushArrayEmpty, PushHash3, PushHashEmpty}

BinaryOperators == {OpIndex, OpGreaterThan, OpEqual, OpNotEqual}

OperatorBytecodes ==
    {[Instructions |-> l \o r \o Make(op, <<>>) \o Make(OpPop, <<>>),
      Constants |-> OperandConstants] :
        l \in PushOperands, r \in PushOperands, op \in BinaryOperators}

\* bytecode that applies one arithmetic opcode to two operands: 1, "a", "b",
\* true, null, the empty array, the empty hash
ArithPushes ==
    { Make(OpConstant, <<2>>), Make(OpConstant, <<5>>), Make(OpConstant, <<6>>),
      Make(OpTrue, <<>>), Make(OpNull, <<>>), PushArrayEmpty, PushHashEmpty }
ArithBytecodes ==
    {[Instructions |-> l \o r \o Make(op, <<>>) \o Make(OpPop, <<>>),
      Constants |-> OperandConstants] :
        l \in ArithPushes, r \in ArithPushes, op \in {OpAdd, OpSub, OpMul, OpDiv}}

\* bytecode that applies one or two prefix opcodes to one operand.  The
\* constants: MinInt64, MaxInt64, -1, 0, 1, "a", "", and two Booleans that
\* are not the True and False of package vm
UnaryConstants ==
    << Integer(MinInt64, InitialAllocs + 1), Integer(MaxInt64, InitialAllocs + 2),
       Integer(I64(-1), InitialAllocs + 3), Integer(I64Zero, InitialAllocs + 4),
       Integer(I64One, InitialAllocs + 5), String(<<97>>, InitialAllocs + 6),
       String(<<>>, InitialAllocs + 7), Boolean(TRUE, InitialAllocs + 8),
       Boolean(FALSE, InitialAllocs + 9) >>
UnaryPushes ==
    {Make(OpConstant, <<k - 1>>) : k \in 1..Len(UnaryConstants)}
        \cup {Make(OpTrue, <<>>), Make(OpFalse, <<>>), Make(OpNull, <<>>),
              Make(OpGetGlobal, <<0>>), PushArrayEmpty, PushHashEmpty}
PrefixOpcodes ==
    {Make(op, <<>>) : op \in {OpMinus, OpBang}}
        \cup {Make(op1, <<>>) \o Make(op2, <<>>) :
                 op1 \in {OpMinus, OpBang}, op2 \in {OpMinus, OpBang}}
UnaryBytecodes ==
    {[Instructions |-> v \o ops \o Make(OpPop, <<>>), Constants |-> UnaryConstants] :
        v \in UnaryPushes, ops \in PrefixOpcodes}

\* the compiler after Compile of n statements `1;`: n constants, and for each
\* the instructions OpConstant k, OpPop
ManyLiterals == GlobalSize - 1
CompilerAfter(n) ==
    [instructions |->
         <<>> \o [j \in 1..(4 * n) |->
                     CASE j % 4 = 1 -> OpConstant
                       [] j % 4 = 2 -> ((j - 1) \div 4) \div 256
                       [] j % 4 = 3 -> ((j - 1) \div 4) % 256
                       [] OTHER -> OpPop],
     constants |-> <<>> \o [k \in 1..n |-> Integer(I64One, InitialAllocs + k)],
     allocs |-> InitialAllocs + n]
\* CompilerAfter(n), with the one for ManyLiterals computed once
ManyCompiled == CompilerAfter(ManyLiterals)
Before(n) == IF n = ManyLiterals THEN ManyCompiled ELSE CompilerAfter(n)

\* the compiler c without the code and the constants of its first n literals
\* (all of c if they are not those of CompilerAfter(n))
EmittedAfter(c, n) ==
    IF /\ Len(c.constants) >= n
       /\ SubSeq(c.constants, 1, n) = Before(n).constants
       /\ Len(c.instructions) >= 4 * n
       /\ SubSeq(c.instructions, 1, 4 * n) = Before(n).instructions
    THEN [instructions |-> SliceFrom(c.instructions, 4 * n),
          constants |-> SliceFrom(c.constants, n), allocs |-> c.allocs]
    ELSE c

\* the compiler of which EmittedAfter(c, n) is c
Restored(c, n) ==
    [instructions |-> Before(n).instructions \o c.instructions,
     constants |-> Before(n).constants \o c.constants, allocs |-> c.allocs]

\* the statements compiled next: expressions over the literals 6 and 0
ConstExprs ==
    { IntegerLiteral(I64(6)), IntegerLiteral(I64Zero),
      InfixExpression(IntegerLiteral(I64(6)), "+", IntegerLiteral(I64Zero)),
      InfixExpression(IntegerLiteral(I64Zero), "-", IntegerLiteral(I64(6))),
      InfixExpression(InfixExpression(IntegerLiteral(I64(6)), "+", IntegerLiteral(I64Zero)),
                      "*", IntegerLiteral(I64(6))) }
ConstPrograms ==
    {Program(q) : q \in SeqsUpTo({ExpressionStatement(e) : e \in ConstExprs}, MaxStmts)}

\* bytecode with jumps, over the constants and the operands of the prefix
\* opcodes: for a condition c,
\*   c; OpJumpNotTruthy else; OpConstant 4; OpJump end; else: OpNull; end: OpPop
\*   c; OpJumpNotTruthy end; OpTrue; OpPop; end:
\*   c; top: OpJumpNotTruthy out; OpFalse; OpJump top; out: OpNull; OpPop
IfElseCode(c) ==
    c \o Make(OpJumpNotTruthy, <<Len(c) + 9>>) \o Make(OpConstant, <<4>>)
      \o Make(OpJump, <<Len(c) + 10>>) \o Make(OpNull, <<>>) \o Make(OpPop, <<>>)
IfCode(c) ==
    c \o Make(OpJumpNotTruthy, <<Len(c) + 5>>) \o Make(OpTrue, <<>>) \o Make(OpPop, <<>>)
LoopCode(c) ==
    c \o Make(OpJumpNotTruthy, <<Len(c) + 7>>) \o Make(OpFalse, <<>>)
      \o Make(OpJump, <<Len(c)>>) \o Make(OpNull, <<>>) \o Make(OpPop, <<>>)

\* bytecode that runs through the other opcodes
TourCode ==
    Make(OpConstant, <<4>>) \o Make(OpSetGlobal, <<0>>) \o Make(OpGetGlobal, <<0>>)
      \o Make(OpMinus, <<>>) \o Make(OpConstant, <<4>>) \o Make(OpAdd, <<>>)
      \o Make(OpConstant, <<4>>) \o Make(OpSub, <<>>)
      \o Make(OpConstant, <<4>>) \o Make(OpMul, <<>>)
      \o Make(OpConstant, <<4>>) \o Make(OpDiv, <<>>)
      \o Make(OpBang, <<>>) \o Make(OpTrue, <<>>) \o Make(OpEqual, <<>>)
      \o Make(OpFalse, <<>>) \o Make(OpNotEqual, <<>>) \o Make(OpPop, <<>>)
      \o Make(OpConstant, <<4>>) \o Make(OpConstant, <<3>>) \o Make(OpGreaterThan, <<>>)
      \o Make(OpArray, <<1>>) \o Make(OpConstant, <<3>>) \o Make(OpIndex, <<>>)
      \o Make(OpConstant, <<4>>) \o Make(OpHash, <<2>>) \o Make(OpPop, <<>>)

JumpBytecodes ==
    {[Instructions |-> ins, Constants |-> UnaryConstants] :
        ins \in {IfElseCode(c) : c \in UnaryPushes} \cup {IfCode(c) : c \in UnaryPushes}
                    \cup {LoopCode(c) : c \in UnaryPushes} \cup {TourCode}}

\* bytecode that pushes up to MaxElems values (1, true or a new empty array)
\* and builds an array of the top n of them
ElementPushes == {Make(OpConstant, <<4>>), Make(OpTrue, <<>>), PushArrayEmpty}
ArrayBytecodes ==
    {[Instructions |-> Concat(q) \o Make(OpArray, <<n>>) \o Make(OpPop, <<>>),
      Constants |-> UnaryConstants] :
        <<q, n>> \in {t \in SeqsUpTo(ElementPushes, MaxElems) \X (0..MaxElems) :
                         t[2] <= Len(t[1])}}

\* bytecode that pushes up to MaxPairs pairs of a key (1, "a", a Boolean true
\* of the constants, or a new empty array) and a value (0 or true), and
\* builds a hash of the top n values
KeyPushes ==
    {Make(OpConstant, <<4>>), Make(OpConstant, <<5>>), Make(OpConstant, <<7>>),
     PushArrayEmpty}
ValuePushes == {Make(OpConstant, <<3>>), Make(OpTrue, <<>>)}
PairPushes == {k \o v : k \in KeyPushes, v \in ValuePushes}
HashBytecodes ==
    {[Instructions |-> Concat(q) \o Make(OpHash, <<2 * n>>) \o Make(OpPop, <<>>),
      Constants |-> UnaryConstants] :
        <<q, n>> \in {t \in SeqsUpTo(PairPushes, MaxPairs) \X (0..MaxPairs) :
                         t[2] <= Len(t[1])}}

\* bytecode that stores a new empty array in global 0 and then applies one
\* comparison, OpIndex or OpBang to two operands.  The constants: 1, another
\* 1, "a", another "a", and a Boolean true that is not the True of package vm
EqConstants ==
    << Integer(I64One, InitialAllocs + 1), Integer(I64One, InitialAllocs + 2),
       String(<<97>>, InitialAllocs + 3), String(<<97>>, InitialAllocs + 4),
       Boolean(TRUE, InitialAllocs + 5) >>
EqPushes ==
    {Make(OpConstant, <<k - 1>>) : k \in 1..Len(EqConstants)}
        \cup {Make(OpTrue, <<>>), Make(OpFalse, <<>>), Make(OpNull, <<>>),
              Make(OpGetGlobal, <<0>>), PushArrayEmpty, PushHashEmpty}
EqBytecodes ==
    {[Instructions |-> PushArrayEmpty \o Make(OpSetGlobal, <<0>>)
                          \o l \o r \o Make(op, <<>>) \o Make(OpPop, <<>>),
      Constants |-> EqConstants] :
        l \in EqPushes, r \in EqPushes,
        op \in {OpEqual, OpNotEqual, OpGreaterThan, OpIndex, OpBang}}

\* bytecode of up to MaxAccesses accesses to the globals 0, 1 and 65535: 1 or
\* "a" stored in global 0, "a" in global 65535, or one of the three read and
\* popped; and the bytecode that runs through the opcodes
GlobalAccesses ==
    { Make(OpConstant, <<4>>) \o Make(OpSetGlobal, <<0>>),
      Make(OpConstant, <<5>>) \o Make(OpSetGlobal, <<0>>),
      Make(OpConstant, <<5>>) \o Make(OpSetGlobal, <<GlobalSize - 1>>),
      Make(OpGetGlobal, <<0>>) \o Make(OpPop, <<>>),
      Make(OpGetGlobal, <<1>>) \o Make(OpPop, <<>>) }
GlobalBytecodes ==
    {[Instructions |-> ins, Constants |-> UnaryConstants] :
        ins \in {Concat(q) : q \in SeqsUpTo(GlobalAccesses, MaxAccesses)} \cup {TourCode}}

\* instructions to encode with operands of every size: every opcode with a
\* 2-byte operand, given an operand below 256, below 65536, beyond it, or
\* negative, or given no operand at all
WideValues == {1, 255, 256, 65535, 65536, 65537, 131070, 16777216, 2147418112, 2147483647, -1, -65536}
WideInstrs ==
    UNION {{[op |-> op, operands |-> xs] : xs \in {<<x>> : x \in WideValues} \cup {<<>>}}
              : op \in {o \in DOMAIN definitions : definitions[o].OperandWidths = <<2>>}}

\* bytecode without jumps: one arithmetic opcode on two operands, prefix
\* opcodes on one operand, and the bytecode that runs through the opcodes
StraightBytecodes ==
    ArithBytecodes \cup UnaryBytecodes
        \cup {[Instructions |-> TourCode, Constants |-> UnaryConstants]}

\* instructions to encode: every opcode with operands as its definition has them
OperandValues == {0, 2, 65534, 65535}
RECURSIVE OperandTuples(_)
OperandTuples(widths) ==
    IF widths = <<>> THEN {<<>>}
    ELSE {<<x>> \o t : x \in OperandValues, t \in OperandTuples(Tail(widths))}
Instrs ==
    UNION {{[op |-> op, operands |-> xs] : xs \in OperandTuples(definitions[op].OperandWidths)}
              : op \in DOMAIN definitions}
InsLists == SeqsUpTo(Instrs, MaxInstrs)

-----------------------------------------------------------------------------
(* The codec on its own: encode a list of instructions, decode each, and   *)
(* disassemble the concatenation (TestMake, TestReadOperands,              *)
(* TestInstructionsString).                                                *)

\* instruction := code.Make(tt.op, tt.operands...), appended to concatted
TestMake ==
    /\ phase = "codec"
    /\ made' = Concat([k \in 1..Len(insList) |->
                          Make(insList[k].op, insList[k].operands)])
    /\ phase' = "made"
    /\ UNCHANGED <<compilerVars, vmVars, insList, readOut, strOut, symVars, storeVars>>

\* code.ReadOperands(def, instruction[1:]) for each instruction
TestReadOperands ==
    /\ phase = "made"
    /\ readOut' = [k \in 1..Len(insList) |->
                      ReadOperands(Lookup(insList[k].op).def,
                                   SliceFrom(Make(insList[k].op, insList[k].operands), 1))]
    /\ phase' = "read"
    /\ UNCHANGED <<compilerVars, vmVars, insList, made, strOut, symVars, storeVars>>

\* concatted.String()
TestInstructionsString ==
    /\ phase = "read"
    /\ strOut' = InstructionsString(made)
    /\ phase' = "printed"
    /\ UNCHANGED <<compilerVars, vmVars, insList, made, readOut, symVars, storeVars>>

-----------------------------------------------------------------------------
(* Compile on a compiler that has compiled literals before.                *)

\* comp.Compile(program), comp having compiled `earlier` statements `1;`
CompileMore ==
    /\ phase = "parsed"
    /\ LET r == Compile(Restored(comp, earlier), program)
       IN  /\ comp' = EmittedAfter(r.c, earlier)
           /\ compErr' = r.err
           /\ phase' = IF r.err = "" THEN "compiled" ELSE "compileError"
    /\ UNCHANGED <<program, earlier, vmVars, codecVars, symVars, storeVars>>

-----------------------------------------------------------------------------
(* Turns of a session: each turn constructs a VM over some bytecode, with  *)
(* New or with NewWithGlobalStore on the one store s, and runs it.         *)

\* vm.NewWithGlobalStore(bytecode, s)
NewTurnWithStore ==
    /\ phase = "turn"
    /\ turn < MaxTurns
    /\ \E bytecode \in TurnBytecodes :
          SetMachine(NewWithGlobalStore(bytecode, store, allocs))
    /\ sharing' = TRUE
    /\ turn' = turn + 1
    /\ phase' = "running"
    /\ UNCHANGED <<compilerVars, codecVars, symVars, store>>

\* vm.New(bytecode)
NewTurn ==
    /\ phase = "turn"
    /\ turn < MaxTurns
    /\ \E bytecode \in TurnBytecodes : SetMachine(NewVM(bytecode, allocs))
    /\ sharing' = FALSE
    /\ turn' = turn + 1
    /\ phase' = "running"
    /\ UNCHANGED <<compilerVars, codecVars, symVars, store>>

\* Run returned (nil or an error): the session goes on to its next turn
EndTurn ==
    /\ phase \in {"done", "error"}
    /\ turn < MaxTurns
    /\ phase' = "turn"
    /\ UNCHANGED <<compilerVars, vmVars, codecVars, symVars, storeVars>>

-----------------------------------------------------------------------------
(* The symbol table on its own.                                            *)

\* the calls of Define made in this run of the model (the tables the model
\* starts from hold 0 or ManyDefinitions definitions)
DefinesSoFar ==
    IF symbolTable.numDefinitions >= ManyDefinitions
    THEN symbolTable.numDefinitions - ManyDefinitions
    ELSE symbolTable.numDefinitions

\* symbolTable.Define(name)
DefineName ==
    /\ phase = "symbols"
    /\ DefinesSoFar < MaxDefines
    /\ \E name \in Names :
          LET d == Define(symbolTable, name)
          IN  /\ symbolTable' = d.st
              /\ symbol' = [sym |-> d.sym, ok |-> TRUE]
              /\ defined' = Append(defined, d.sym)
    /\ UNCHANGED <<phase, compilerVars, vmVars, codecVars, storeVars>>

\* symbolTable.Resolve(name)
ResolveName ==
    /\ phase = "symbols"
    /\ \E name \in Names : symbol' = Resolve(symbolTable, name)
    /\ UNCHANGED <<phase, compilerVars, vmVars, codecVars, storeVars, symbolTable,
                   defined>>

-----------------------------------------------------------------------------
(* Specifications.                                                         *)

\* compile and run a program
Init ==
    /\ phase = "parsed"
    /\ program \in Programs
    /\ insList = <<>>
    /\ Idle

Next == CompileProgram \/ StartVM \/ RunStep \/ RunReturn

Spec == Init /\ [][Next]_vars

\* the loop of Run goes on: while the VM runs, the for loop makes its next
\* iteration or Run returns.  Both RunStep and RunReturn change phase or ip,
\* and the step is stated by that effect alone, so that its enabling is read
\* off the state without an evaluation of RunIteration
RunGoesOn ==
    /\ phase = "running"
    /\ phase' \in {"running", "done", "error", "panic"}
    /\ ip' \in 0..(Len(instructions) + 2)

\* compile and run a program, with a Run that does not stop half-way: Run is
\* sequential code on one goroutine, so a started loop keeps going
SpecLive == Init /\ [][Next]_vars /\ WF_<<phase, ip>>(RunGoesOn)

\* compile and run one arithmetic expression
InitTree ==
    /\ phase = "parsed"
    /\ program \in {Program(<<ExpressionStatement(t)>>) : t \in Trees}
    /\ insList = <<>>
    /\ Idle

SpecTree == InitTree /\ [][Next]_vars

\* compile and run a program that uses if, let or a comparison
InitLang ==
    /\ phase = "parsed"
    /\ program \in LangPrograms
    /\ insList = <<>>
    /\ Idle

SpecLang == InitLang /\ [][Next]_vars

\* a session of turns over one globals store
InitStore ==
    /\ phase = "turn"
    /\ program = Program(<<>>)
    /\ insList = <<>>
    /\ comp = NewCompiler
    /\ earlier = 0
    /\ compErr = ""
    /\ constants = <<>>
    /\ instructions = <<>>
    /\ stack = <<>>
    /\ sp = 0
    /\ globals = <<>>
    /\ ip = 0
    /\ runErr = ""
    /\ allocs = InitialAllocs + Len(TurnConstants)
    /\ made = <<>>
    /\ readOut = NoRead
    /\ strOut = NoString
    /\ NoSession

NextStore == NewTurnWithStore \/ NewTurn \/ RunStep \/ RunReturn \/ EndTurn

SpecStore == InitStore /\ [][NextStore]_vars

\* a symbol table on its own
InitSym ==
    /\ phase = "symbols"
    /\ program = Program(<<>>)
    /\ insList = <<>>
    /\ comp = NewCompiler
    /\ earlier = 0
    /\ compErr = ""
    /\ constants = <<>>
    /\ instructions = <<>>
    /\ stack = <<>>
    /\ sp = 0
    /\ globals = <<>>
    /\ ip = 0
    /\ runErr = ""
    /\ allocs = InitialAllocs
    /\ made = <<>>
    /\ readOut = NoRead
    /\ strOut = NoString
    /\ symbolTable \in SymbolTables
    /\ symbol = NoSymbol
    /\ defined = <<>>
    /\ NoStore

NextSym == DefineName \/ ResolveName

SpecSym == InitSym /\ [][NextSym]_vars

\* run one operator on two operands
InitOps ==
    /\ phase = "running"
    /\ program = Program(<<>>)
    /\ insList = <<>>
    /\ comp = NewCompiler
    /\ earlier = 0
    /\ compErr = ""
    /\ \E bytecode \in OperatorBytecodes :
          LET m == NewVM(bytecode, InitialAllocs + Len(bytecode.Constants))
          IN  /\ constants = m.constants
              /\ instructions = m.instructions
              /\ stack = m.stack
              /\ sp = m.sp
              /\ globals = m.globals
              /\ ip = m.ip
              /\ allocs = m.allocs
              /\ runErr = m.err
    /\ made = <<>>
    /\ readOut = NoRead
    /\ strOut = NoString
    /\ NoSession

SpecOps == InitOps /\ [][RunStep \/ RunReturn]_vars

\* vm.New(bytecode) for one of the given bytecodes, about to run
InitBytecode(bytecodes) ==
    /\ phase = "running"
    /\ program = Program(<<>>)
    /\ insList = <<>>
    /\ comp = NewCompiler
    /\ earlier = 0
    /\ compErr = ""
    /\ \E bytecode \in bytecodes :
          LET m == NewVM(bytecode, InitialAllocs + Len(bytecode.Constants))
          IN  /\ constants = m.constants
              /\ instructions = m.instructions
              /\ stack = m.stack
              /\ sp = m.sp
              /\ globals = m.globals
              /\ ip = m.ip
              /\ allocs = m.allocs
              /\ runErr = m.err
    /\ made = <<>>
    /\ readOut = NoRead
    /\ strOut = NoString
    /\ NoSession

\* run one arithmetic opcode on two operands of any types
InitArith == InitBytecode(ArithBytecodes)

SpecArith == InitArith /\ [][RunStep \/ RunReturn]_vars

\* run one or two prefix opcodes on one operand of any type
InitUnary == InitBytecode(UnaryBytecodes)

SpecUnary == InitUnary /\ [][RunStep \/ RunReturn]_vars

\* compile statements with a compiler that is new or has compiled
\* ManyLiterals literals already
InitConst ==
    /\ phase = "parsed"
    /\ program \in ConstPrograms
    /\ insList = <<>>
    /\ earlier \in {0, ManyLiterals}
    /\ comp = EmittedAfter(Before(earlier), earlier)
    /\ compErr = ""
    /\ constants = <<>>
    /\ instructions = <<>>
    /\ stack = <<>>
    /\ sp = 0
    /\ globals = <<>>
    /\ ip = 0
    /\ runErr = ""
    /\ allocs = InitialAllocs
    /\ made = <<>>
    /\ readOut = NoRead
    /\ strOut = NoString
    /\ NoSession

SpecConst == InitConst /\ [][CompileMore]_vars

\* run bytecode with jumps
InitJump == InitBytecode(JumpBytecodes)

SpecJump == InitJump /\ [][RunStep \/ RunReturn]_vars

\* build arrays
InitArray == InitBytecode(ArrayBytecodes)

SpecArray == InitArray /\ [][RunStep \/ RunReturn]_vars

\* run bytecode that builds a hash
InitHash == InitBytecode(HashBytecodes)

SpecHash == InitHash /\ [][RunStep \/ RunReturn]_vars

\* run one comparison, OpIndex or OpBang on two operands of any types
InitEq == InitBytecode(EqBytecodes)

SpecEq == InitEq /\ [][RunStep \/ RunReturn]_vars

\* run bytecode that stores and reads globals
InitGlobals == InitBytecode(GlobalBytecodes)

SpecGlobals == InitGlobals /\ [][RunStep \/ RunReturn]_vars

\* encode, decode and disassemble one instruction with an operand of any size
InitWide ==
    /\ phase = "codec"
    /\ program = Program(<<>>)
    /\ insList \in {<<i>> : i \in WideInstrs}
    /\ Idle

SpecWide ==
    InitWide /\ [][TestMake \/ TestReadOperands \/ TestInstructionsString]_vars

\* run bytecode without jumps
InitStraight == InitBytecode(StraightBytecodes)

SpecStraight == InitStraight /\ [][RunStep \/ RunReturn]_vars

\* run hand-written bytecode
InitVM ==
    /\ phase = "running"
    /\ program = Program(<<>>)
    /\ insList = <<>>
    /\ comp = NewCompiler
    /\ earlier = 0
    /\ compErr = ""
    /\ \E bytecode \in RawBytecodes :
          LET m == NewVM(bytecode, InitialAllocs + Len(bytecode.Constants))
          IN  /\ constants = m.constants
              /\ instructions = m.instructions
              /\ stack = m.stack
              /\ sp = m.sp
              /\ globals = m.globals
              /\ ip = m.ip
              /\ allocs = m.allocs
              /\ runErr = m.err
    /\ made = <<>>
    /\ readOut = NoRead
    /\ strOut = NoString
    /\ NoSession

NextVM == RunStep \/ RunReturn

SpecVM == InitVM /\ [][NextVM]_vars

\* the codec
InitCodec ==
    /\ phase = "codec"
    /\ program = Program(<<>>)
    /\ insList \in InsLists
    /\ Idle

NextCodec == TestMake \/ TestReadOperands \/ TestInstructionsString

SpecCodec == InitCodec /\ [][NextCodec]_vars

-----------------------------------------------------------------------------
(* Reference semantics of expressions, by structural recursion on the tree *)
(* (no stack, no bytecode): what an expression is worth.                   *)

IntValue(v) == [type |-> INTEGER_OBJ, value |-> v]
BoolValue(b) == [type |-> BOOLEAN_OBJ, boolValue |-> b]
NoValue == [type |-> "ERROR"]

RECURSIVE ValueOf(_)
ValueOf(e) ==
    CASE e.node = "IntegerLiteral" -> IntValue(e.Value)
      [] e.node = "Boolean" -> BoolValue(e.BoolValue)
      [] e.node = "InfixExpression" ->
           LET l == ValueOf(e.Left)
               r == ValueOf(e.Right)
           IN  IF l.type # INTEGER_OBJ \/ r.type # INTEGER_OBJ THEN NoValue
               ELSE CASE e.Operator = "+" -> IntValue(I64Add(l.value, r.value))
                      [] e.Operator = "-" -> IntValue(I64Sub(l.value, r.value))
                      [] e.Operator = "*" -> IntValue(I64Mul(l.value, r.value))
                      [] e.Operator = "/" ->
                           IF r.value = I64Zero THEN NoValue
                           ELSE IntValue(I64Quo(l.value, r.value))
                      [] e.Operator = "<" -> BoolValue(I64Greater(r.value, l.value))
                      [] OTHER -> NoValue
      [] OTHER -> NoValue

\* an object without its identity
Payload(o) ==
    CASE o.type = INTEGER_OBJ -> IntValue(o.value)
      [] o.type = BOOLEAN_OBJ -> BoolValue(o.boolValue)
      [] OTHER -> [type |-> o.type]

\* the positions of the expression statements of the program
ExprStmtIndexes == {k \in 1..Len(program.Statements) :
                       program.Statements[k].node = "ExpressionStatement"}

Max(S) == CHOOSE x \in S : \A y \in S : y <= x

LastExpression == program.Statements[Max(ExprStmtIndexes)].Expression

\* the opcode Run is about to fetch
Running == phase = "running" /\ ip < Len(instructions)
NextOp == instructions[ip + 1]

-----------------------------------------------------------------------------
(* Claims.                                                                 *)

\* C1: when a compiled program has run to completion without error,
\* LastPoppedStackElem() is the value of its last expression statement.
C1_LastPoppedIsLastExpression ==
    (phase = "done" /\ ExprStmtIndexes # {}) =>
        /\ ~LastPoppedStackElem(Machine).panic
        /\ Payload(LastPoppedStackElem(Machine).o) = ValueOf(LastExpression)

\* two expression statements of different values ran; the second is an
\* infix expression and its value is the one last popped
C1_Witness ==
    /\ phase = "done"
    /\ Len(program.Statements) = 2
    /\ ExprStmtIndexes = {1, 2}
    /\ LastExpression.node = "InfixExpression"
    /\ ValueOf(program.Statements[1].Expression) # ValueOf(LastExpression)
    /\ Payload(LastPoppedStackElem(Machine).o) = ValueOf(LastExpression)

\* the number of values the opcode pops before it pushes anything
PopsOf(op) ==
    CASE op \in {OpAdd, OpSub, OpMul, OpDiv, OpEqual, OpNotEqual, OpGreaterThan,
                 OpIndex} -> 2
      [] op \in {OpPop, OpMinus, OpBang, OpJumpNotTruthy, OpSetGlobal} -> 1
      [] OTHER -> 0

\* C2: running compiled bytecode never pops from an empty stack: whenever
\* the next instruction pops, the stack holds at least as many values as it pops.
C2_NoPopFromEmptyStack == Running => sp >= PopsOf(NextOp)

\* the byte offsets at which the code of a statement of the program starts
StatementStarts ==
    {Len(Compile(NewCompiler, Program(SubSeq(program.Statements, 1, k))).c.instructions) :
        k \in 0..Len(program.Statements)}

\* C3: every expression statement is stack-neutral: sp is 0 where the code
\* of a statement starts, and exactly one value is on the stack when the
\* OpPop that ends an expression statement is fetched.
C3_ExpressionStatementStackNeutral ==
    phase = "running" =>
        /\ ip \in StatementStarts => sp = 0
        /\ (ip < Len(instructions) /\ NextOp = OpPop) => sp = 1

\* the next instruction pushes one value and pops none
PushesNext ==
    /\ Running
    /\ \/ NextOp \in {OpTrue, OpFalse, OpNull}
       \/ NextOp \in {OpConstant, OpGetGlobal} /\ ~OperandMissing(Machine)
                /\ (NextOp = OpConstant => OperandAt(Machine) < Len(constants))

\* C4: sp never exceeds StackSize; a push with sp < StackSize succeeds, and
\* a push with sp >= StackSize makes Run return the error "stack overflow".
C4_StackOverflow ==
    /\ [](sp \in 0..StackSize /\ Len(stack) <= StackSize)
    /\ []((runErr = "stack overflow") => (phase = "error" /\ sp = StackSize))
    /\ [][PushesNext =>
            IF sp < StackSize
            THEN sp' = sp + 1 /\ phase' = "running"
            ELSE phase' = "error" /\ runErr' = "stack overflow" /\ sp' = sp]_vars

\* Run returned "stack overflow" with all 2048 slots in use
C4_Witness == phase = "error" /\ runErr = "stack overflow" /\ sp = StackSize

\* the next instruction is OpDiv with two Integers on top, the right one 0
DivByZeroNext ==
    /\ Running
    /\ NextOp = OpDiv
    /\ sp >= 2
    /\ StackAt(stack, sp - 1).type = INTEGER_OBJ
    /\ StackAt(stack, sp - 2).type = INTEGER_OBJ
    /\ StackAt(stack, sp - 1).value = I64Zero

\* C5: OpDiv on two Integers with a zero divisor makes Run return a
\* runtime error; the program does not crash.
C5_DivisionByZeroIsError == [][DivByZeroNext => phase' = "error"]_vars

\* C6: fetching an opcode byte that has no definition makes Run halt with
\* an error; the byte is not skipped.
C6_UnknownOpcodeIsError ==
    [][(Running /\ NextOp \notin DOMAIN definitions) => phase' = "error"]_vars

\* the expression of a program that is one expression statement
TheTree == program.Statements[1].Expression

\* C7: an Integer arithmetic tree over + - * / that divides by no zero
\* compiles and runs to the value the tree has in signed 64-bit arithmetic
\* with truncating division, left operand on the left.
C7_ArithmeticAgrees ==
    (phase \in {"compileError", "error", "panic", "done"}
        /\ ValueOf(TheTree).type = INTEGER_OBJ) =>
            /\ phase = "done"
            /\ Payload(LastPoppedStackElem(Machine).o) = ValueOf(TheTree)

\* (-7 - MaxInt64) / -7 ran: the difference wrapped to a positive number,
\* the negative quotient was truncated toward zero
C7_Witness ==
    /\ phase = "done"
    /\ TheTree = InfixExpression(
                    InfixExpression(IntegerLiteral(I64(-7)), "-", IntegerLiteral(MaxInt64)),
                    "/", IntegerLiteral(I64(-7)))
    /\ ~I64IsNeg(ValueOf(TheTree.Left).value)
    /\ I64Mul(ValueOf(TheTree).value, I64(-7)) # ValueOf(TheTree.Left).value
    /\ Payload(LastPoppedStackElem(Machine).o) = ValueOf(TheTree)

\* C8: codec round trip: ReadOperands(Lookup(op), Make(op, xs)[1:]) is
\* (xs, the sum of the operand widths of op).
C8_ReadOperandsInvertsMake ==
    phase \in {"read", "printed"} =>
        \A k \in 1..Len(insList) :
            /\ ~readOut[k].panic
            /\ readOut[k].operands = insList[k].operands
            /\ readOut[k].read = SumSeq(definitions[insList[k].op].OperandWidths)

\* an operand whose two bytes differ was encoded and read back
C8_Witness ==
    /\ phase = "read"
    /\ \E k \in 1..Len(insList) :
          /\ insList[k].operands = <<65534>>
          /\ readOut[k].operands = <<65534>>
          /\ readOut[k].read = 2

\* the length of the encoding of instruction k of insList
EncodedLen(k) == 1 + SumSeq(definitions[insList[k].op].OperandWidths)

\* the byte offset of instruction k of insList in the concatenation
RECURSIVE OffsetOf(_)
OffsetOf(k) == IF k = 1 THEN 0 ELSE OffsetOf(k - 1) + EncodedLen(k - 1)

\* C9: Make returns 1 + (sum of operand widths) bytes: the opcode, then
\* each 2-byte operand big-endian; Make(OpConstant, 65534) is
\* [OpConstant, 0xFF, 0xFE] and Make(OpAdd) is [OpAdd].
C9_MakeEncoding ==
    phase \in {"made", "read", "printed"} =>
        /\ Len(made) = IF insList = <<>> THEN 0
                       ELSE OffsetOf(Len(insList)) + EncodedLen(Len(insList))
        /\ \A k \in 1..Len(insList) :
              /\ made[OffsetOf(k) + 1] = insList[k].op
              /\ \A j \in 1..Len(insList[k].operands) :
                    /\ made[OffsetOf(k) + 2 * j] = insList[k].operands[j] \div 256
                    /\ made[OffsetOf(k) + 2 * j + 1] = insList[k].operands[j] % 256
        /\ insList = <<[op |-> OpConstant, operands |-> <<65534>>]>>
              => made = <<OpConstant, 255, 254>>
        /\ insList = <<[op |-> OpAdd, operands |-> <<>>]>> => made = <<OpAdd>>

\* Make(OpConstant, 65534) was called
C9_Witness ==
    /\ phase = "made"
    /\ insList = <<[op |-> OpConstant, operands |-> <<65534>>]>>
    /\ made = <<OpConstant, 255, 254>>

\* a number below 10000 as four decimal digits
FourDigits(n) ==
    DecimalDigits[((n \div 1000) % 10) + 1] \o DecimalDigits[((n \div 100) % 10) + 1]
        \o DecimalDigits[((n \div 10) % 10) + 1] \o DecimalDigits[(n % 10) + 1]

\* the line of instruction k of insList: offset, name, operands
ExpectedLine(k) ==
    FourDigits(OffsetOf(k)) \o " " \o definitions[insList[k].op].Name
        \o (IF insList[k].operands = <<>> THEN ""
            ELSE " " \o Itoa(insList[k].operands[1]))
        \o "\n"

RECURSIVE ExpectedLines(_)
ExpectedLines(k) == IF k = 0 THEN "" ELSE ExpectedLines(k - 1) \o ExpectedLine(k)

\* C10: the disassembly of a concatenation of Make outputs is one line per
\* instruction, in order: the offset as four zero-padded digits, the
\* opcode name, the operands in decimal.
C10_DisassemblyLines ==
    phase = "printed" =>
        /\ ~strOut.panic
        /\ strOut.out = ExpectedLines(Len(insList))

\* OpAdd and OpConstant 2 were disassembled, the second at offset 1
C10_Witness ==
    /\ phase = "printed"
    /\ insList = <<[op |-> OpAdd, operands |-> <<>>],
                   [op |-> OpConstant, operands |-> <<2>>]>>
    /\ strOut.out = "0000 OpAdd\n0001 OpConstant 2\n"

-----------------------------------------------------------------------------
(* Claims C11 .. C20                                                       *)

\* the ways a compile-and-run can end
Terminal == {"done", "error", "panic", "compileError"}

\* the program is the one statement `if (c) { e }` with a falsy condition c
IfWithoutElseFalsy ==
    /\ Len(program.Statements) = 1
    /\ program.Statements[1].node = "ExpressionStatement"
    /\ program.Statements[1].Expression.node = "IfExpression"
    /\ program.Statements[1].Expression.Alternative = NoBlock
    /\ program.Statements[1].Expression.Condition \in FalsyConditions

\* C11: compiling and running `if (c) { e }` with a falsy condition c ends
\* normally and leaves Null as the last popped value.
C11_IfWithoutElseIsNull ==
    (IfWithoutElseFalsy /\ phase \in Terminal) =>
        /\ phase = "done"
        /\ ~LastPoppedStackElem(Machine).panic
        /\ LastPoppedStackElem(Machine).o = Null

\* how compiling and running the program p ends, and the value last popped
RunProgram(p) ==
    LET r == Compile(NewCompiler, p)
        m == Run(NewVM(Bytecode(r.c), r.c.allocs))
    IN  IF r.err # "" THEN [status |-> "compileError", value |-> NoValue]
        ELSE IF m.status # "done" \/ LastPoppedStackElem(m).panic
        THEN [status |-> m.status, value |-> NoValue]
        ELSE [status |-> "done", value |-> Payload(LastPoppedStackElem(m).o)]

\* how the run in progress ended
Outcome ==
    IF phase # "done" \/ LastPoppedStackElem(Machine).panic
    THEN [status |-> phase, value |-> NoValue]
    ELSE [status |-> "done", value |-> Payload(LastPoppedStackElem(Machine).o)]

\* the program is `let x = E; x`
LetThenUse ==
    /\ Len(program.Statements) = 2
    /\ program.Statements[1].node = "LetStatement"
    /\ program.Statements[2] = ExpressionStatement(program.Statements[1].Name)

\* C12: the program `let x = E; x` ends as the program `E` does, with the
\* same last popped value.
C12_LetBindingIdempotence ==
    (LetThenUse /\ phase \in Terminal) =>
        Outcome = RunProgram(Program(<<ExpressionStatement(program.Statements[1].Value)>>))

\* Define was called with a name that the table already holds
Redefines ==
    /\ phase = "symbols"
    /\ symbolTable' # symbolTable
    /\ symbol'.sym.Name \in DOMAIN symbolTable.store

\* C13: Define of a name already defined returns a symbol with the index the
\* name already has, and allocates no new slot.
C13_RedefineReusesSlot ==
    [][Redefines =>
          /\ symbol'.sym.Index = symbolTable.store[symbol'.sym.Name].Index
          /\ symbolTable'.numDefinitions = symbolTable.numDefinitions]_vars

\* a VM whose globals are the store s is about to run the opcode op
SharingNext(op) == Running /\ sharing /\ NextOp = op

\* C14: a VM constructed with NewWithGlobalStore on the store s starts with
\* the globals of s; what it stores in slot i with OpSetGlobal i is in slot i
\* of s, OpGetGlobal i reads slot i of s, and nothing else changes s, so a
\* later VM on s reads the value until it is overwritten.  A VM constructed
\* with New starts with no global set and never changes s.
C14_BindingsPersistAcrossTurns ==
    /\ [][(phase = "turn" /\ phase' = "running" /\ sharing') => globals' = store]_vars
    /\ [][(phase = "turn" /\ phase' = "running" /\ ~sharing') => globals' = <<>>]_vars
    /\ [][(SharingNext(OpSetGlobal) /\ sp >= 1) =>
              store' = GlobalWrite(store, OperandAt(Machine), StackAt(stack, sp - 1))]_vars
    /\ [][(SharingNext(OpGetGlobal) /\ sp < StackSize) =>
              /\ sp' = sp + 1
              /\ StackAt(stack', sp) = GlobalAt(store, OperandAt(Machine))]_vars
    /\ [][store' # store => SharingNext(OpSetGlobal)]_vars

\* the second VM on the store has read, with OpGetGlobal 0, the 5 that the
\* first VM stored in slot 0
C14_Witness ==
    /\ turn = 2
    /\ sharing
    /\ instructions = Make(OpGetGlobal, <<0>>) \o Make(OpPop, <<>>)
    /\ ip = 3
    /\ sp = 1
    /\ StackAt(stack, 0) = TurnConstants[1]

\* Run is about to execute op on the two operands on top of the stack
BinaryNext(op) == Running /\ NextOp = op /\ sp >= 2
LeftOperand == StackAt(stack, sp - 2)
RightOperand == StackAt(stack, sp - 1)

\* the instruction pushed exactly the object o in place of its two operands
PushedInstead(o) ==
    /\ phase' = "running"
    /\ sp' = sp - 1
    /\ StackAt(stack', sp - 2) = o

\* the positions k (1-based) of the array at which the int64 index points
PositionsAt(array, index) ==
    {k \in 1..Len(array.Elements) : index.value = I64(k - 1)}

\* OpIndex is next, on an Array and an Integer
ArrayIndexNext ==
    /\ BinaryNext(OpIndex)
    /\ LeftOperand.type = ARRAY_OBJ
    /\ RightOperand.type = INTEGER_OBJ

\* C15: OpIndex on an Array with an Integer index i pushes the element at
\* position i when 0 <= i < len and Null otherwise, never an error.
C15_ArrayIndex ==
    [][ArrayIndexNext =>
          IF PositionsAt(LeftOperand, RightOperand) = {}
          THEN PushedInstead(Null)
          ELSE \E k \in PositionsAt(LeftOperand, RightOperand) :
                  PushedInstead(LeftOperand.Elements[k])]_vars

\* [1, 2][-1] was executed and left Null
C15_Witness ==
    /\ instructions = PushArray12 \o Make(OpConstant, <<0>>)
                          \o Make(OpIndex, <<>>) \o Make(OpPop, <<>>)
    /\ ip = Len(instructions) - 1
    /\ phase = "running"
    /\ sp = 1
    /\ StackAt(stack, 0) = Null

\* Run returned the error msg, leaving the stack without the two operands
FailedWith(msg) ==
    /\ phase' = "error"
    /\ runErr' = msg
    /\ sp' = sp - 2
    /\ stack' = stack

\* two keys with the same type and the same content
SameKey(a, b) ==
    /\ a.type = b.type
    /\ IF a.type = BOOLEAN_OBJ THEN a.boolValue = b.boolValue ELSE a.value = b.value

\* the hash keys under which hash holds a pair whose key is index
KeysAt(hash, index) ==
    {k \in DOMAIN hash.Pairs : SameKey(hash.Pairs[k].Key, index)}

\* C16: OpIndex on a Hash pushes the stored value for a hashable index that
\* is present and Null for one that is absent, and fails with "unusable as
\* hash key" for an index that is not hashable; on any other pair of
\* operands but Array and Integer it fails with "index operator not
\* supported".
C16_HashIndex ==
    [][(BinaryNext(OpIndex) /\ ~ArrayIndexNext) =>
          IF LeftOperand.type # HASH_OBJ
          THEN FailedWith("index operator not supported: " \o LeftOperand.type)
          ELSE IF RightOperand.type \notin {INTEGER_OBJ, BOOLEAN_OBJ, STRING_OBJ}
          THEN FailedWith("unusable as hash key: " \o RightOperand.type)
          ELSE IF KeysAt(LeftOperand, RightOperand) = {}
          THEN PushedInstead(Null)
          ELSE \E k \in KeysAt(LeftOperand, RightOperand) :
                  PushedInstead(LeftOperand.Pairs[k].Value)]_vars

\* {1: 2, "a": true, true: "b"}["a"], with another string "a" as the index,
\* was executed and left true
C16_Witness ==
    /\ instructions = PushHash3 \o Make(OpConstant, <<7>>)
                          \o Make(OpIndex, <<>>) \o Make(OpPop, <<>>)
    /\ ip = Len(instructions) - 1
    /\ phase = "running"
    /\ sp = 1
    /\ StackAt(stack, 0) = True

\* the integers of the operand constants in increasing order
IntegersInOrder == <<I64(-1), I64Zero, I64One, I64(2), MaxInt64>>
Rank(v) == CHOOSE k \in 1..Len(IntegersInOrder) : IntegersInOrder[k] = v

\* C17: OpGreaterThan on two Integers pushes the canonical Boolean for
\* L > R (R on top); on operands of any other types Run returns an
\* "unknown operator" error and nothing is pushed.
C17_GreaterThanIntegerOnly ==
    [][(BinaryNext(OpGreaterThan) /\ ~IsNil(LeftOperand) /\ ~IsNil(RightOperand)) =>
          IF LeftOperand.type = INTEGER_OBJ /\ RightOperand.type = INTEGER_OBJ
          THEN PushedInstead(IF Rank(LeftOperand.value) > Rank(RightOperand.value)
                             THEN True ELSE False)
          ELSE FailedWith("unknown operator: " \o Itoa(OpGreaterThan) \o " ("
                             \o LeftOperand.type \o " " \o RightOperand.type \o ")")]_vars

\* 2 > 1 was executed and left true
C17_Witness ==
    /\ instructions = Make(OpConstant, <<3>>) \o Make(OpConstant, <<2>>)
                          \o Make(OpGreaterThan, <<>>) \o Make(OpPop, <<>>)
    /\ ip = Len(instructions) - 1
    /\ phase = "running"
    /\ sp = 1
    /\ StackAt(stack, 0) = True

\* C18: OpEqual and OpNotEqual never fail: on any two operands they push
\* one canonical Boolean, and on operands of different types OpEqual pushes
\* False and OpNotEqual pushes True.
C18_EqualityNeverFails ==
    [][\A op \in {OpEqual, OpNotEqual} :
          (BinaryNext(op) /\ ~IsNil(LeftOperand) /\ ~IsNil(RightOperand)) =>
              /\ PushedInstead(True) \/ PushedInstead(False)
              /\ LeftOperand.type # RightOperand.type =>
                     PushedInstead(IF op = OpEqual THEN False ELSE True)]_vars

\* 1 != true was executed and left true
C18_Witness ==
    /\ instructions = Make(OpConstant, <<2>>) \o Make(OpTrue, <<>>)
                          \o Make(OpNotEqual, <<>>) \o Make(OpPop, <<>>)
    /\ ip = Len(instructions) - 1
    /\ phase = "running"
    /\ sp = 1
    /\ StackAt(stack, 0) = True

\* the slot operand of the instruction op encoded for the symbol sym
EncodedSlot(op, sym) == ReadUint16(SliceFrom(Make(op, <<sym.Index>>), 1))

\* C19: every symbol handed out has an index below GlobalSize (a definition
\* beyond the capacity is an error, not a symbol), and OpSetGlobal and
\* OpGetGlobal encode exactly the index of the symbol.
C19_GlobalsCapacityEnforced ==
    (phase = "symbols" /\ symbol.ok) =>
        /\ symbol.sym.Index < GlobalSize
        /\ EncodedSlot(OpSetGlobal, symbol.sym) = symbol.sym.Index
        /\ EncodedSlot(OpGetGlobal, symbol.sym) = symbol.sym.Index

\* the opcode the claim names for an infix operator
OpcodeOfOperator(operator) ==
    CASE operator = "+" -> OpAdd
      [] operator = "-" -> OpSub
      [] operator = "*" -> OpMul
      [] operator = "/" -> OpDiv
      [] operator = "==" -> OpEqual
      [] operator = "!=" -> OpNotEqual
      [] operator = ">" -> OpGreaterThan

\* the program is the one statement `L op R` over integer literals, with op
\* one of + - * / == != >
InfixStatement ==
    /\ Len(program.Statements) = 1
    /\ program.Statements[1].node = "ExpressionStatement"
    /\ program.Statements[1].Expression.node = "InfixExpression"
    /\ program.Statements[1].Expression.Operator \in {"+", "-", "*", "/", "==", "!=", ">"}
    /\ program.Statements[1].Expression.Left.node = "IntegerLiteral"
    /\ program.Statements[1].Expression.Right.node = "IntegerLiteral"

\* the code of L, then the code of R, then the one opcode of the operator
\* (then the OpPop of the statement)
InfixCode(e) ==
    LET l == Compile(NewCompiler, e.Left)
        r == Compile(l.c, e.Right)
    IN  r.c.instructions \o <<OpcodeOfOperator(e.Operator)>> \o Make(OpPop, <<>>)

\* C20: for L op R with op among + - * / == != >, Compile returns no error
\* and emits the code of L, the code of R and the one opcode of op.
C20_InfixEmitsOperandsThenOpcode ==
    (InfixStatement /\ phase # "parsed") =>
        /\ compErr = ""
        /\ comp.instructions = InfixCode(program.Statements[1].Expression)

-----------------------------------------------------------------------------
(* Claims C21 .. C30                                                       *)

\* the program is the one statement `L < R` over integer literals
LessStatement ==
    /\ Len(program.Statements) = 1
    /\ program.Statements[1].node = "ExpressionStatement"
    /\ program.Statements[1].Expression.node = "InfixExpression"
    /\ program.Statements[1].Expression.Operator = "<"
    /\ program.Statements[1].Expression.Left.node = "IntegerLiteral"
    /\ program.Statements[1].Expression.Right.node = "IntegerLiteral"

\* the code of R, then the code of L, then OpGreaterThan (then the OpPop of
\* the statement)
LessCode(e) ==
    LET r == Compile(NewCompiler, e.Right)
        l == Compile(r.c, e.Left)
    IN  l.c.instructions \o Make(OpGreaterThan, <<>>) \o Make(OpPop, <<>>)

\* C21: for L < R Compile returns no error and emits the code of R, the code
\* of L and OpGreaterThan, and running it leaves True exactly when L is less
\* than R and False otherwise.
C21_LessThanSwapsOperands ==
    (LessStatement /\ phase # "parsed") =>
        /\ compErr = ""
        /\ comp.instructions = LessCode(program.Statements[1].Expression)
        /\ phase \in Terminal =>
              /\ phase = "done"
              /\ ~LastPoppedStackElem(Machine).panic
              /\ LastPoppedStackElem(Machine).o =
                     IF I64Greater(program.Statements[1].Expression.Right.Value,
                                   program.Statements[1].Expression.Left.Value)
                     THEN True ELSE False

\* the statement is an infix expression over leaves with an operator that
\* the switch on node.Operator has no case for
UnknownOperatorAt(stmt) ==
    /\ stmt.node = "ExpressionStatement"
    /\ stmt.Expression.node = "InfixExpression"
    /\ stmt.Expression.Operator \notin {"+", "-", "*", "/"}

Min(S) == CHOOSE x \in S : \A y \in S : x <= y

\* the statements of the program with such an operator
UnknownOperatorStatements ==
    {i \in 1..Len(program.Statements) : UnknownOperatorAt(program.Statements[i])}

\* the compiler after the statements before statement k and the two operands
\* of statement k, and nothing after them
StoppedAt(k) ==
    LET before == Compile(NewCompiler, Program(SubSeq(program.Statements, 1, k - 1)))
        l == Compile(before.c, program.Statements[k].Expression.Left)
        r == Compile(l.c, program.Statements[k].Expression.Right)
    IN  r.c

\* C22: when a statement of the program is an infix expression with an
\* operator the compiler has no case for, Compile returns the error
\* "unknown operator <op>" of the first such statement and has compiled
\* nothing after it; when there is none, Compile returns no error.
C22_UnknownOperatorStopsCompile ==
    phase # "parsed" =>
        IF UnknownOperatorStatements = {}
        THEN compErr = ""
        ELSE LET k == Min(UnknownOperatorStatements)
             IN  /\ phase = "compileError"
                 /\ compErr = "unknown operator "
                                 \o program.Statements[k].Expression.Operator
                 /\ comp = StoppedAt(k)

\* `6 < 0; 6 - 0` was compiled: the error is that of the first statement and
\* only the constants 6 and 0 of the first statement were emitted
C22_Witness ==
    /\ program = Program(<<ExpressionStatement(InfixExpression(
                                IntegerLiteral(I64(6)), "<", IntegerLiteral(I64Zero))),
                           ExpressionStatement(InfixExpression(
                                IntegerLiteral(I64(6)), "-", IntegerLiteral(I64Zero)))>>)
    /\ phase = "compileError"
    /\ compErr = "unknown operator <"
    /\ comp.instructions = Make(OpConstant, <<0>>) \o Make(OpConstant, <<1>>)
    /\ Len(comp.constants) = 2

\* Run is about to execute one of the four arithmetic opcodes on two
\* operands that are not both Integers
ArithNext ==
    /\ \E op \in {OpAdd, OpSub, OpMul, OpDiv} : BinaryNext(op)
    /\ ~(LeftOperand.type = INTEGER_OBJ /\ RightOperand.type = INTEGER_OBJ)

\* C23: OpAdd on two Strings replaces them by the String of the bytes of the
\* left one followed by the bytes of the right one; every other arithmetic
\* opcode on two Strings, and every arithmetic opcode on operands that are not
\* both Integers or both Strings, makes Run return an error after popping the
\* operands, with nothing pushed.
C23_StringConcatElseError ==
    [][ArithNext =>
          IF /\ NextOp = OpAdd
             /\ LeftOperand.type = STRING_OBJ
             /\ RightOperand.type = STRING_OBJ
          THEN /\ phase' = "running"
               /\ sp' = sp - 1
               /\ StackAt(stack', sp - 2).type = STRING_OBJ
               /\ StackAt(stack', sp - 2).value = LeftOperand.value \o RightOperand.value
          ELSE /\ phase' = "error"
               /\ runErr' # ""
               /\ sp' = sp - 2
               /\ stack' = stack]_vars

\* "a" + "b" was executed and left "ab"
C23_Witness ==
    /\ instructions = Make(OpConstant, <<5>>) \o Make(OpConstant, <<6>>)
                          \o Make(OpAdd, <<>>) \o Make(OpPop, <<>>)
    /\ ip = Len(instructions) - 1
    /\ phase = "running"
    /\ sp = 1
    /\ StackAt(stack, 0).type = STRING_OBJ
    /\ StackAt(stack, 0).value = <<97, 98>>

\* Run is about to execute op on the operand on top of the stack
UnaryNext(op) == Running /\ NextOp = op /\ sp >= 1
Operand == StackAt(stack, sp - 1)

\* Run returned the error msg, leaving the stack without the operand
UnaryFailedWith(msg) ==
    /\ phase' = "error"
    /\ runErr' = msg
    /\ sp' = sp - 1
    /\ stack' = stack

\* C24: OpMinus replaces an Integer N on top of the stack by a newly
\* allocated Integer M with M + N = 0 in 64-bit two's complement (so M is the
\* least int64 when N is); on an operand of any other type Run returns the
\* error "unsupported type for negation" and nothing is pushed.
C24_MinusWrapsElseError ==
    [][(UnaryNext(OpMinus) /\ ~IsNil(Operand)) =>
          IF Operand.type = INTEGER_OBJ
          THEN /\ phase' = "running"
               /\ sp' = sp
               /\ StackAt(stack', sp - 1).type = INTEGER_OBJ
               /\ I64Add(StackAt(stack', sp - 1).value, Operand.value) = I64Zero
               /\ Operand.value = MinInt64 => StackAt(stack', sp - 1).value = MinInt64
               /\ StackAt(stack', sp - 1).ref > allocs
          ELSE UnaryFailedWith("unsupported type for negation: " \o Operand.type)]_vars

\* minus the least int64 was executed and left the least int64
C24_Witness ==
    /\ instructions = Make(OpConstant, <<0>>) \o Make(OpMinus, <<>>) \o Make(OpPop, <<>>)
    /\ ip = Len(instructions) - 1
    /\ phase = "running"
    /\ sp = 1
    /\ StackAt(stack, 0).type = INTEGER_OBJ
    /\ StackAt(stack, 0).value = MinInt64
    /\ StackAt(stack, 0).ref # UnaryConstants[1].ref

\* C25: OpBang replaces the value V on top of the stack, whatever it is and
\* wherever it comes from, by True when V is not truthy as OpJumpNotTruthy
\* judges it, and by False when it is.
C25_BangAgreesWithTruthiness ==
    [][UnaryNext(OpBang) =>
          /\ phase' = "running"
          /\ sp' = sp
          /\ StackAt(stack', sp - 1) = IF isTruthy(Operand) THEN False ELSE True]_vars

\* the values of the integer literals of a node, in the order Compile meets
\* them
RECURSIVE Literals(_)
RECURSIVE LiteralsOfStatements(_, _)
LiteralsOfStatements(stmts, i) ==
    IF i > Len(stmts) THEN <<>>
    ELSE Literals(stmts[i]) \o LiteralsOfStatements(stmts, i + 1)
Literals(node) ==
    CASE node.node = "Program" -> LiteralsOfStatements(node.Statements, 1)
      [] node.node = "ExpressionStatement" -> Literals(node.Expression)
      [] node.node = "InfixExpression" -> Literals(node.Left) \o Literals(node.Right)
      [] node.node = "IntegerLiteral" -> <<node.Value>>
      [] OTHER -> <<>>

\* the operands of the OpConstant instructions of ins, from byte i (1-based) on
RECURSIVE ConstantOperands(_, _)
ConstantOperands(ins, i) ==
    IF i > Len(ins) THEN <<>>
    ELSE LET width == 1 + SumSeq(definitions[ins[i]].OperandWidths)
         IN  (IF ins[i] = OpConstant
              THEN <<ins[i + 1] * 256 + ins[i + 2]>> ELSE <<>>)
                 \o ConstantOperands(ins, i + width)

\* constants[i] of the compiler: one of the first `earlier` constants or one
\* of those comp holds
ConstantAt(c, i) ==
    IF i < earlier THEN Before(earlier).constants[i + 1]
    ELSE c.constants[i - earlier + 1]

\* C26: a call of Compile only appends to the constants, and each OpConstant
\* it emits carries an operand i below the number of constants with
\* constants[i] the value of the literal that emitted it, however many
\* literals were compiled before.
C26_ConstantOperandsValid ==
    [][(phase = "parsed" /\ phase' = "compiled") =>
          LET emitted == SliceFrom(comp'.instructions, Len(comp.instructions))
              operands == ConstantOperands(emitted, 1)
              literals == Literals(program)
          IN  /\ Len(comp'.constants) = Len(comp.constants) + Len(literals)
              /\ SubSeq(comp'.constants, 1, Len(comp.constants)) = comp.constants
              /\ Len(operands) = Len(literals)
              /\ \A j \in 1..Len(operands) :
                    /\ operands[j] < earlier + Len(comp'.constants)
                    /\ ConstantAt(comp', operands[j]).value = literals[j]]_vars

\* the number of definitions the table held before the first call of Define
\* recorded in defined, and the table it was then
DefinedBefore == symbolTable.numDefinitions - Len(defined)
TableBefore == CHOOSE st \in SymbolTables : st.numDefinitions = DefinedBefore

\* the calls of Define (1-based positions in defined) made with the name
CallsWith(name) == {k \in 1..Len(defined) : defined[k].Name = name}

\* C27: on a table that held n definitions (none when it is fresh) the k-th
\* call of Define, k counted from 0, returns the Global-scope symbol of its
\* name with index n + k; Resolve(name) gives the symbol the most recent
\* Define(name) returned, or what the table gave before when there was no
\* such call (not found on a fresh table); and a call of Resolve returns just
\* that and leaves the table as it is.
C27_DenseIndicesAndResolve ==
    /\ [](phase = "symbols" =>
            /\ DefinedBefore \in {st.numDefinitions : st \in SymbolTables}
            /\ \A k \in 1..Len(defined) :
                  /\ defined[k].Index = DefinedBefore + k - 1
                  /\ defined[k].Scope = GlobalScope
            /\ \A name \in Names :
                  Resolve(symbolTable, name) =
                      IF CallsWith(name) # {}
                      THEN [sym |-> defined[Max(CallsWith(name))], ok |-> TRUE]
                      ELSE Resolve(TableBefore, name)
            /\ \A name \in Names :
                  (DefinedBefore = 0 /\ CallsWith(name) = {}) =>
                      ~Resolve(symbolTable, name).ok)
    /\ [][phase = "symbols" =>
            IF defined' # defined
            THEN /\ Len(defined') = Len(defined) + 1
                 /\ symbol' = [sym |-> defined'[Len(defined')], ok |-> TRUE]
            ELSE /\ symbolTable' = symbolTable
                 /\ \E name \in Names : symbol' = Resolve(symbolTable, name)]_vars

\* after Define("a"), Define("b"), Define("a") on a fresh table, which
\* returned the indices 0, 1, 2, Resolve("b") returned the symbol of index 1
C27_Witness ==
    /\ phase = "symbols"
    /\ symbolTable.numDefinitions = 3
    /\ defined = <<Symbol(<<97>>, GlobalScope, 0), Symbol(<<98>>, GlobalScope, 1),
                   Symbol(<<97>>, GlobalScope, 2)>>
    /\ symbol = [sym |-> Symbol(<<98>>, GlobalScope, 1), ok |-> TRUE]
    /\ Resolve(symbolTable, <<97>>).sym.Index = 2

\* the 2-byte operand of the instruction at ip, read big-endian
Target == instructions[ip + 2] * 256 + instructions[ip + 3]

\* a value that is not truthy: Null, or a Boolean that is false
NotTruthy(o) == o.type = NULL_OBJ \/ (o.type = BOOLEAN_OBJ /\ ~o.boolValue)

\* C28: OpJump t leaves the stack alone and makes t the offset of the next
\* opcode fetched; OpJumpNotTruthy t pops the condition, once, and makes t
\* the offset of the next opcode fetched when the condition is not truthy,
\* and the offset after its two operand bytes when it is truthy.
C28_JumpSemantics ==
    /\ [][(Running /\ NextOp = OpJump) =>
             /\ phase' = "running"
             /\ ip' = Target
             /\ sp' = sp
             /\ stack' = stack]_vars
    /\ [][(Running /\ NextOp = OpJumpNotTruthy /\ sp >= 1) =>
             /\ phase' = "running"
             /\ sp' = sp - 1
             /\ stack' = stack
             /\ ip' = IF NotTruthy(StackAt(stack, sp - 1)) THEN Target ELSE ip + 3]_vars

\* the loop `true; top: jump out if not truthy; false; jump top; out: ...`
\* has jumped back to top and from there, the condition now false, out
C28_Witness ==
    /\ instructions = LoopCode(Make(OpTrue, <<>>))
    /\ phase = "running"
    /\ ip = 8
    /\ sp = 0
    /\ StackAt(stack, 0) = False

\* the offsets at which the instructions of ins start, from offset i on
RECURSIVE StartsFrom(_, _)
StartsFrom(ins, i) ==
    IF i >= Len(ins) THEN {}
    ELSE {i} \cup StartsFrom(ins, i + 1 + SumSeq(definitions[ins[i + 1]].OperandWidths))

\* C29: on bytecode made of Make outputs with jumps to instruction starts,
\* every offset at which Run fetches an opcode is the start of an instruction,
\* and every instruction that does not jump moves ip on by one plus the
\* operand widths of the definition of its opcode.
C29_InstructionBoundaries ==
    /\ []((phase = "running" /\ ip < Len(instructions)) =>
             ip \in StartsFrom(instructions, 0))
    /\ [][(Running /\ phase' = "running" /\ NextOp # OpJump
             /\ ~(NextOp = OpJumpNotTruthy /\ NotTruthy(StackAt(stack, sp - 1)))) =>
             ip' = ip + 1 + SumSeq(definitions[NextOp].OperandWidths)]_vars

\* the bytecode that runs through the opcodes has reached its last
\* instruction, the OpPop at offset 52, with the hash {true: 1} on the stack
C29_Witness ==
    /\ instructions = TourCode
    /\ phase = "running"
    /\ ip = Len(TourCode) - 1
    /\ sp = 1
    /\ StackAt(stack, 0).type = HASH_OBJ

\* C30: OpArray n, with at least n values on the stack and room for the
\* result, replaces the top n values by one Array whose elements are those
\* values, the deepest first; sp changes by 1 - n, and the values below are
\* left alone.  With n = 0 the Array is empty.
C30_ArrayFromStack ==
    [][(Running /\ NextOp = OpArray /\ sp >= Target /\ sp - Target < StackSize) =>
          /\ phase' = "running"
          /\ sp' = sp - Target + 1
          /\ StackAt(stack', sp - Target).type = ARRAY_OBJ
          /\ Len(StackAt(stack', sp - Target).Elements) = Target
          /\ \A j \in 1..Target :
                StackAt(stack', sp - Target).Elements[j] = StackAt(stack, sp - Target + j - 1)
          /\ \A i \in 0..(sp - Target - 1) : StackAt(stack', i) = StackAt(stack, i)]_vars

\* [], 1 and true were pushed and OpArray 2 left [1, true] above the []
C30_Witness ==
    /\ instructions = PushArrayEmpty \o Make(OpConstant, <<4>>) \o Make(OpTrue, <<>>)
                          \o Make(OpArray, <<2>>) \o Make(OpPop, <<>>)
    /\ ip = Len(instructions) - 1
    /\ phase = "running"
    /\ sp = 2
    /\ StackAt(stack, 0).type = ARRAY_OBJ
    /\ StackAt(stack, 0).Elements = <<>>
    /\ StackAt(stack, 1).type = ARRAY_OBJ
    /\ StackAt(stack, 1).Elements = <<UnaryConstants[5], True>>


-----------------------------------------------------------------------------
(* Claims C31 .. C38                                                       *)

\* the key and the value of the j-th pair under OpHash, the deepest pair first
PairKey(j) == StackAt(stack, sp - Target + 2 * (j - 1))
PairValue(j) == StackAt(stack, sp - Target + 2 * j - 1)
PairsUnder == 1..(Target \div 2)

\* the pairs whose key is not hashable, and the last pair with the key of j
Unusable == {j \in PairsUnder : PairKey(j).type \notin {INTEGER_OBJ, BOOLEAN_OBJ, STRING_OBJ}}
LastWith(j) == Max({i \in PairsUnder : SameKey(PairKey(i), PairKey(j))})

\* C31: OpHash n, with n values on the stack read as key, value, key, value
\* from the deepest to the top, replaces them by one Hash that holds under
\* each key the value of the last pair with that key, so sp changes by
\* 1 - n; when a key is not hashable Run returns the error "unusable as
\* hash key", pushes no Hash and leaves sp and the stack as they were.
C31_HashFromStack ==
    [][(Running /\ NextOp = OpHash /\ sp >= Target /\ sp - Target < StackSize
          /\ Target % 2 = 0 /\ \A j \in PairsUnder : ~IsNil(PairKey(j))) =>
          IF Unusable = {}
          THEN /\ phase' = "running"
               /\ sp' = sp - Target + 1
               /\ StackAt(stack', sp - Target).type = HASH_OBJ
               /\ \A j \in PairsUnder :
                     /\ KeysAt(StackAt(stack', sp - Target), PairKey(j)) # {}
                     /\ \A k \in KeysAt(StackAt(stack', sp - Target), PairKey(j)) :
                           StackAt(stack', sp - Target).Pairs[k].Value
                               = PairValue(LastWith(j))
               /\ Cardinality(DOMAIN StackAt(stack', sp - Target).Pairs)
                      = Cardinality({LastWith(j) : j \in PairsUnder})
               /\ \A i \in 0..(sp - Target - 1) : StackAt(stack', i) = StackAt(stack, i)
          ELSE /\ phase' = "error"
               /\ runErr' = "unusable as hash key: " \o PairKey(Min(Unusable)).type
               /\ sp' = sp
               /\ stack' = stack]_vars

\* 1, 0, [] and true were pushed and OpHash 4 failed on the key [], with the
\* four values still on the stack
C31_Witness ==
    /\ instructions = Make(OpConstant, <<4>>) \o Make(OpConstant, <<3>>)
                          \o PushArrayEmpty \o Make(OpTrue, <<>>)
                          \o Make(OpHash, <<4>>) \o Make(OpPop, <<>>)
    /\ phase = "error"
    /\ runErr = "unusable as hash key: ARRAY"
    /\ sp = 4
    /\ StackAt(stack, 2).type = ARRAY_OBJ
    /\ StackAt(stack, 3) = True


\* the values a container holds
Contained(c) ==
    IF c.type = ARRAY_OBJ THEN {c.Elements[i] : i \in DOMAIN c.Elements}
    ELSE IF c.type = HASH_OBJ THEN {c.Pairs[k].Value : k \in DOMAIN c.Pairs}
    ELSE {}

\* C32: the Boolean or Null that an instruction produces is the one shared
\* True, False or Null of package vm, and no object is allocated for it:
\* OpTrue, OpFalse and OpNull push them, the comparisons and OpBang push
\* True or False, and OpIndex pushes a value the container holds or Null.
C32_CanonicalSingletons ==
    [][(Running /\ phase' = "running") =>
          /\ NextOp = OpTrue => StackAt(stack', sp) = True /\ allocs' = allocs
          /\ NextOp = OpFalse => StackAt(stack', sp) = False /\ allocs' = allocs
          /\ NextOp = OpNull => StackAt(stack', sp) = Null /\ allocs' = allocs
          /\ NextOp \in {OpEqual, OpNotEqual, OpGreaterThan} =>
                StackAt(stack', sp - 2) \in {True, False} /\ allocs' = allocs
          /\ NextOp = OpBang =>
                StackAt(stack', sp - 1) \in {True, False} /\ allocs' = allocs
          /\ NextOp = OpIndex =>
                /\ StackAt(stack', sp - 2) \in Contained(LeftOperand) \cup {Null}
                /\ allocs' = allocs]_vars

\* {}["a"] was executed and left the Null of package vm; the only objects
\* allocated are the array in global 0 and the hash
C32_Witness ==
    /\ instructions = PushArrayEmpty \o Make(OpSetGlobal, <<0>>) \o PushHashEmpty
                          \o Make(OpConstant, <<2>>) \o Make(OpIndex, <<>>)
                          \o Make(OpPop, <<>>)
    /\ ip = Len(instructions) - 1
    /\ phase = "running"
    /\ sp = 1
    /\ StackAt(stack, 0) = Null
    /\ allocs = InitialAllocs + Len(EqConstants) + 2

\* C33: OpEqual on two operands that are not both Integers pushes True
\* exactly when the two are the same object, so two separately created
\* Strings, Arrays, Hashes or Booleans with equal contents are unequal;
\* OpNotEqual pushes the negation.
C33_EqualityIsIdentity ==
    [][\A op \in {OpEqual, OpNotEqual} :
          (BinaryNext(op) /\ ~IsNil(LeftOperand) /\ ~IsNil(RightOperand)
             /\ ~(LeftOperand.type = INTEGER_OBJ /\ RightOperand.type = INTEGER_OBJ)) =>
              PushedInstead(IF (LeftOperand.ref = RightOperand.ref) = (op = OpEqual)
                            THEN True ELSE False)]_vars

\* "a" == "a" on two String objects was executed and left false
C33_Witness ==
    /\ instructions = PushArrayEmpty \o Make(OpSetGlobal, <<0>>)
                          \o Make(OpConstant, <<2>>) \o Make(OpConstant, <<3>>)
                          \o Make(OpEqual, <<>>) \o Make(OpPop, <<>>)
    /\ ip = Len(instructions) - 1
    /\ phase = "running"
    /\ sp = 1
    /\ StackAt(stack, 0) = False


\* C34: Run on bytecode produced by the Compiler always returns, nil past the
\* last instruction or the error of the operation that failed, and while it
\* runs ip only moves forward, so no instruction is executed twice.
C34_RunReturns ==
    /\ (phase = "running") ~> (phase \in {"done", "error"})
    /\ [][(Running /\ phase' = "running") => ip' > ip]_vars
    /\ [][phase = "running" => phase' # "running" \/ ip' # ip]_vars

\* Run on bytecode produced by the Compiler always ends, and while it runs ip
\* only moves forward
C34_RunEnds ==
    /\ (phase = "running") ~> (phase \in {"done", "error", "panic"})
    /\ [][(Running /\ phase' = "running") => ip' > ip]_vars
    /\ [][phase = "running" => phase' # "running" \/ ip' # ip]_vars


\* the bytecode of the statements before statement k
BytecodeBefore(k) ==
    Bytecode(Compile(NewCompiler, Program(SubSeq(program.Statements, 1, k - 1))).c)

\* C35: when Compile returns an error, Bytecode() holds none of the
\* instructions and constants emitted for the statement that failed: it is
\* the bytecode of the statements before it.
C35_PartialOutputDiscarded ==
    phase = "compileError" =>
        Bytecode(comp) = BytecodeBefore(Min(UnknownOperatorStatements))


\* the operand of the instruction at offset i
OperandOf(i) == instructions[i + 2] * 256 + instructions[i + 3]

\* the offsets before ip of the instructions OpSetGlobal s, in bytecode that
\* runs straight through
SetsBefore(s) ==
    {i \in StartsFrom(instructions, 0) :
        i < ip /\ instructions[i + 1] = OpSetGlobal /\ OperandOf(i) = s}

\* the value pushed by the instruction before the one at offset i, which is
\* an OpConstant or an OpTrue
PushedBefore(i) ==
    LET j == Max({k \in StartsFrom(instructions, 0) : k < i})
    IN  IF instructions[j + 1] = OpConstant THEN constants[OperandOf(j) + 1] ELSE True

\* the value last stored in global s, nil when none was
LastStored(s) ==
    IF SetsBefore(s) = {} THEN Nil ELSE PushedBefore(Max(SetsBefore(s)))

\* C36: OpSetGlobal s pops the top value and stores it in globals[s],
\* leaving every other slot as it was; OpGetGlobal s pushes the value last
\* stored in slot s and changes no slot; no other instruction changes a
\* slot, and no instruction changes the constants or the instructions.
C36_GlobalsFrame ==
    [][Running =>
          /\ constants' = constants
          /\ instructions' = instructions
          /\ (NextOp = OpSetGlobal /\ sp >= 1) =>
                /\ phase' = "running"
                /\ sp' = sp - 1
                /\ GlobalAt(globals', Target) = StackAt(stack, sp - 1)
                /\ \A i \in (DOMAIN globals \cup DOMAIN globals') \ {Target} :
                      GlobalAt(globals', i) = GlobalAt(globals, i)
          /\ NextOp = OpGetGlobal =>
                /\ phase' = "running"
                /\ sp' = sp + 1
                /\ StackAt(stack', sp) = LastStored(Target)
                /\ StackAt(stack', sp) = GlobalAt(globals, Target)
          /\ NextOp # OpSetGlobal => globals' = globals]_vars

\* 1 was stored in global 0, then "a" in global 65535 and "a" in global 0,
\* and the OpGetGlobal 0 after them pushed "a"
C36_Witness ==
    /\ instructions = Make(OpConstant, <<4>>) \o Make(OpSetGlobal, <<0>>)
                          \o Make(OpConstant, <<5>>) \o Make(OpSetGlobal, <<GlobalSize - 1>>)
                          \o Make(OpConstant, <<5>>) \o Make(OpSetGlobal, <<0>>)
                          \o Make(OpGetGlobal, <<0>>) \o Make(OpPop, <<>>)
    /\ ip = Len(instructions) - 1
    /\ phase = "running"
    /\ sp = 1
    /\ StackAt(stack, 0) = UnaryConstants[6]
    /\ GlobalAt(globals, 0) = UnaryConstants[6]
    /\ GlobalAt(globals, GlobalSize - 1) = UnaryConstants[6]
    /\ GlobalAt(globals, 1) = Nil


\* the operand given to Make for the one instruction of insList, 0 when none
\* was given, and its residue modulo 2^16
Given == IF insList[1].operands = <<>> THEN 0 ELSE insList[1].operands[1]
Residue == Given % 65536

\* C37: Make encodes a 2-byte operand x as the two bytes of x mod 65536, the
\* high byte first, whatever the size of x: an operand of 65536 or more is
\* truncated, one below 256 has the high byte 0, and an operand that was not
\* given is two zero bytes; ReadOperands returns x mod 65536 from them.
C37_MakeTruncatesOperand ==
    (phase \in {"made", "read", "printed"} /\ Len(insList) = 1) =>
        /\ made = <<insList[1].op, Residue \div 256, Residue % 256>>
        /\ Given \in 0..255 => made[2] = 0 /\ made[3] = Given
        /\ insList[1].operands = <<>> => made[2] = 0 /\ made[3] = 0
        /\ phase \in {"read", "printed"} =>
              /\ ~readOut[1].panic
              /\ readOut[1].operands = <<Residue>>
              /\ readOut[1].read = 2

\* Make(OpConstant, 65537) was called and decoded: the bytes are 0, 1 and the
\* operand read back is 1
C37_Witness ==
    /\ phase = "read"
    /\ insList = <<[op |-> OpConstant, operands |-> <<65537>>]>>
    /\ made = <<OpConstant, 0, 1>>
    /\ readOut[1].operands = <<1>>


\* the offsets Instructions.String() prints, in order: those at which its
\* loop writes a line "%04d %s", from offset i on
RECURSIVE PrintedOffsets(_, _)
PrintedOffsets(ins, i) ==
    IF i >= Len(ins) THEN <<>>
    ELSE LET lk == Lookup(ins[i + 1])
             rd == ReadOperands(lk.def, SliceFrom(ins, i + 1))
         IN  IF lk.err # "" THEN PrintedOffsets(ins, i + 1)
             ELSE IF rd.panic THEN <<>>
             ELSE <<i>> \o PrintedOffsets(ins, i + 1 + rd.read)

\* the line Instructions.String() prints for the instruction at offset i
PrintedLine(ins, i) ==
    Fmt04d(i) \o " "
        \o fmtInstruction(Lookup(ins[i + 1]).def,
                           ReadOperands(Lookup(ins[i + 1]).def, SliceFrom(ins, i + 1)).operands)
        \o "\n"

\* the lines of a sequence of offsets, one after the other
RECURSIVE PrintedLines(_, _)
PrintedLines(ins, offsets) ==
    IF offsets = <<>> THEN ""
    ELSE PrintedLine(ins, Head(offsets)) \o PrintedLines(ins, Tail(offsets))

\* the printed offset after offset i, the length of ins when i is the last
OffsetAfter(ins, i) ==
    LET later == {k \in 1..Len(PrintedOffsets(ins, 0)) : PrintedOffsets(ins, 0)[k] > i}
    IN  IF later = {} THEN Len(ins) ELSE PrintedOffsets(ins, 0)[Min(later)]

\* C38: on bytecode without jumps made of Make outputs, the offsets that
\* Instructions.String() prints are, in order, the values of ip at which Run
\* fetches an opcode: the disassembly is the lines of those offsets, Run
\* starts at the first of them, and every instruction that ends without an
\* error leaves ip at the offset printed next, past the end after the last.
C38_DisassemblerAgreesWithRun ==
    /\ [](InstructionsString(instructions).out
              = PrintedLines(instructions, PrintedOffsets(instructions, 0)))
    /\ []((Running /\ ip = 0) => Head(PrintedOffsets(instructions, 0) \o <<-1>>) = 0)
    /\ []((phase = "done") => ip = Len(instructions))
    /\ [][(Running /\ phase' = "running") => ip' = OffsetAfter(instructions, ip)]_vars

\* the bytecode that runs through the opcodes was disassembled into 27 lines
\* and Run is at the last of the printed offsets, the OpPop at offset 52
C38_Witness ==
    /\ instructions = TourCode
    /\ phase = "running"
    /\ Len(PrintedOffsets(instructions, 0)) = 27
    /\ ip = PrintedOffsets(instructions, 0)[27]
    /\ ip = 52

====
